---- MODULE Spec2Model ----
(***************************************************************************)
(* HomeConnectCoffee: the event ingestion, persistence and live-broadcast  *)
(* pipeline (EventStreamManager, HistoryManager, HomeConnectClient).       *)
(*                                                                         *)
(* Specifications that share this module, each over its own variables      *)
(* (the others stay at their initial values):                              *)
(*   Spec / FairSpec  start(), stop(), the stream-reader threads, the      *)
(*                    heartbeat monitor and the clock                      *)
(*   PersistSpec      persistence queue, history worker, event table       *)
(*   BroadcastSpec    client registry and broadcast_event                  *)
(*   ReaderSpec       the stream reader's handling of the frames of one    *)
(*                    connection                                           *)
(*   DashSpec         the /events handler threads and the monitor's        *)
(*                    broadcasts                                           *)
(*   ForcedSpec       one stream reader, the frames of its connections and *)
(*                    the monitor's forced reconnects                      *)
(*   TokenSpec        HomeConnectClient._ensure_token under the            *)
(*                    process-wide refresh lock                            *)
(*   RequestSpec      HomeConnectClient._request: the 401 retry with its   *)
(*                    forced refresh, and _ensure_token in _headers        *)
(*   HistSpec         HistoryManager.get_history as a function of the      *)
(*                    event table                                          *)
(*   StatsSpec        HistoryManager.get_daily_usage and                   *)
(*                    get_program_counts as functions of the event table   *)
(*   MigrateSpec      HistoryManager.__init__: the import of the legacy    *)
(*                    history.json by initializers on the same paths       *)
(*   StoreSpec        add_event and the three queries of the event table   *)
(*   AddSpec          add_event called by several threads on one store     *)
(***************************************************************************)
EXTENDS Integers, Sequences, FiniteSets, TLC

(***************************************************************************)
(* Bounds of the model                                                     *)
(***************************************************************************)
\* stream-reader threads that may be alive at once
MaxWorkers == 2
\* the clock advances MaxTicks times, by TimeStep seconds each
TimeStep == 200
MaxTicks == 2
\* 429 responses the reader threads have pending at once
Max429 == 5

\* records the stream reader enqueues in a run, frames it decodes, items in
\* a frame's payload
MaxRecords == 3
MaxFrames == 2
MaxItems == 1

\* SSE clients (DashboardHandler instances) that can be connected
MaxClients == 2

\* threads that call get_access_token, refresh calls in a run
MaxCallers == 2
MaxRefreshes == 2

\* rows of the events table and distinct timestamps in HistSpec
MaxRows == 3
MaxTs == 3

\* rows of the events table in StatsSpec, and the days get_daily_usage is
\* asked for and called on
MaxStored == 2
MaxDays == 2

\* HistoryManager instances built on the same paths, and events in the
\* legacy file
MaxInits == 2
MaxLegacy == 2

\* threads that call add_event on one HistoryManager, and the successful
\* calls of each
MaxAdders == 2
MaxAdds == 2

(***************************************************************************)
(* Program constants                                                       *)
(***************************************************************************)
HeartbeatTimeout == 180
InitialBackoff == 60
MaxBackoffSeconds == 300
RetryPause == 10
ErrorPause == 5

Workers == 1..MaxWorkers

Callers == 1..MaxCallers

\* the callers that make REST requests, two handler threads at a time
Requesters == {1, 2}

ClientIds == 1..MaxClients

Min(a, b) == IF a < b THEN a ELSE b

VARIABLES
    \* ---- EventStreamManager: stream reader, heartbeat monitor ----
    stream_running,          \* _stream_running
    stop_event,              \* _stream_stop_event.is_set()
    force_reconnect,         \* _force_reconnect
    last_heartbeat,          \* _last_heartbeat (0: none yet)
    now,                     \* time.time()
    wpc,                     \* position of each stream-reader thread
    backoff_seconds,         \* local of _event_stream_worker, per thread
    consecutive_429_errors,  \* local of _event_stream_worker, per thread
    mon_pc,                  \* position of the heartbeat-monitor thread
    stream_connected,        \* local of _heartbeat_monitor
    stream_status,           \* STREAM_STATUS payload broadcast in this tick
    history_worker_alive,    \* _history_worker_thread is alive
    streak_429               \* history: 429 responses of a thread since its
                             \* last successful connection

streamVars == <<stream_running, stop_event, force_reconnect, last_heartbeat,
                now, wpc, backoff_seconds, consecutive_429_errors, mon_pc,
                stream_connected, stream_status, history_worker_alive,
                streak_429>>

VARIABLES
    \* ---- EventStreamManager: history queue, SSE clients ----
    history_queue,           \* _history_queue
    hw_item,                 \* the record the history worker has dequeued
    clients,                 \* _clients
    clients_lock,            \* holder of _clients_lock
    bc,                      \* the broadcast_event call that holds the lock
    r_pc,                    \* stream reader: position in the frame handler
    r_frame,                 \* stream reader: event_type and payload of the
                             \* frame being handled, n-th decoded
    reader_bcast,            \* history: broadcast_event calls of the reader
    enqueued,                \* history: ids of the records put on the queue
    add_calls,               \* history: ids passed to add_event, in order
    handler,                 \* each client's /events handler thread
    \* ---- HistoryManager ----
    events,                  \* rows of the events table, in rowid order
    result,                  \* what the last get_history call returned
    json_file,               \* whether the legacy file history.json exists
    backup_file,             \* whether history.json.backup exists
    hm,                      \* each initializer's place in __init__
    ad,                      \* each adder thread's place in add_event
    \* ---- HomeConnectClient, TokenBundle ----
    token_file,              \* the token file
    tokens,                  \* self.tokens of each caller's client
    refresh_lock,            \* holder of _token_refresh_lock
    tpc,                     \* position of each caller in _ensure_token
    seen_expired,            \* history: token a caller found expired
    refresh_calls,           \* history: refresh_access_token calls made
    refresh_failed,          \* history: some refresh call raised
    rq                       \* each requester's _request call

pipeVars == <<history_queue, hw_item, clients, clients_lock, bc, r_pc,
              r_frame, reader_bcast, enqueued, add_calls, handler>>

migVars == <<json_file, backup_file, hm>>

histVars == <<events, result, migVars, ad>>

tokenVars == <<token_file, tokens, refresh_lock, tpc, seen_expired,
               refresh_calls, refresh_failed, rq>>

vars == <<streamVars, pipeVars, histVars, tokenVars>>

NoStatus == [sent |-> FALSE, stream_connected |-> FALSE, last_heartbeat |-> 0]

(***************************************************************************)
(* EventStreamManager.__init__                                             *)
(***************************************************************************)
StreamInit ==
    /\ stream_running = FALSE
    /\ stop_event = FALSE
    /\ force_reconnect = FALSE
    /\ last_heartbeat = 0
    /\ now = TimeStep
    /\ wpc = [w \in Workers |-> "none"]
    /\ backoff_seconds = [w \in Workers |-> InitialBackoff]
    /\ consecutive_429_errors = [w \in Workers |-> 0]
    /\ mon_pc = "none"
    /\ stream_connected = TRUE
    /\ stream_status = NoStatus
    /\ history_worker_alive = FALSE
    /\ streak_429 = [w \in Workers |-> 0]

\* a step that is no connection attempt leaves the history variable alone
NotStream == UNCHANGED <<pipeVars, histVars, tokenVars>>

StreamOnly == UNCHANGED streak_429 /\ NotStream

(***************************************************************************)
(* Heartbeat state                                                         *)
(***************************************************************************)
\* _check_heartbeat: True while no heartbeat was recorded, else elapsed < timeout
CheckHeartbeat ==
    IF last_heartbeat = 0 THEN TRUE
    ELSE now - last_heartbeat < HeartbeatTimeout

NextBackoffUncapped(b) == b * 2

\* backoff_seconds = min(backoff_seconds * 2, max_backoff_seconds)
NextBackoff(b) == Min(b * 2, MaxBackoffSeconds)

\* the smallest free thread slot
FreeSlot(w) ==
    /\ wpc[w] = "none"
    /\ \A v \in Workers : v < w => wpc[v] # "none"

(***************************************************************************)
(* start() and stop()                                                      *)
(***************************************************************************)
\* a start() that does not test _stream_running
StartAlwaysSpawns ==
    /\ history_worker_alive' = TRUE
    /\ mon_pc' = IF mon_pc = "none" THEN "sleep" ELSE mon_pc
    /\ \E w \in Workers :
         /\ FreeSlot(w)
         /\ stop_event' = FALSE
         /\ force_reconnect' = FALSE
         /\ stream_running' = TRUE
         /\ wpc' = [wpc EXCEPT ![w] = "loop"]
         /\ backoff_seconds' = [backoff_seconds EXCEPT ![w] = InitialBackoff]
         /\ consecutive_429_errors' = [consecutive_429_errors EXCEPT ![w] = 0]
         /\ streak_429' = [streak_429 EXCEPT ![w] = 0]
    /\ UNCHANGED <<last_heartbeat, now, stream_connected, stream_status>>
    /\ NotStream

Start ==
    /\ history_worker_alive' = TRUE
    /\ mon_pc' = IF mon_pc = "none" THEN "sleep" ELSE mon_pc
    /\ IF stream_running
       THEN UNCHANGED <<stop_event, force_reconnect, stream_running, wpc,
                        backoff_seconds, consecutive_429_errors, streak_429>>
       ELSE \E w \in Workers :
              /\ FreeSlot(w)
              /\ stop_event' = FALSE
              /\ force_reconnect' = FALSE
              /\ stream_running' = TRUE
              /\ wpc' = [wpc EXCEPT ![w] = "loop"]
              /\ backoff_seconds' = [backoff_seconds EXCEPT ![w] = InitialBackoff]
              /\ consecutive_429_errors' = [consecutive_429_errors EXCEPT ![w] = 0]
              /\ streak_429' = [streak_429 EXCEPT ![w] = 0]
    /\ UNCHANGED <<last_heartbeat, now, stream_connected, stream_status>>
    /\ NotStream

Stop ==
    /\ IF stream_running
       THEN /\ stop_event' = TRUE
            /\ stream_running' = FALSE
       ELSE UNCHANGED <<stop_event, stream_running>>
    /\ UNCHANGED <<force_reconnect, last_heartbeat, now, wpc, backoff_seconds,
                   consecutive_429_errors, mon_pc, stream_connected,
                   stream_status, history_worker_alive>>
    /\ StreamOnly

(***************************************************************************)
(* _event_stream_worker, one action per step of thread w                   *)
(***************************************************************************)
Goto(w, l) == wpc' = [wpc EXCEPT ![w] = l]

\* while not self._stream_stop_event.is_set():
LoopTest == IF stop_event THEN "exit" ELSE "connect"

\* the new thread enters the while loop
W_LoopTest(w) ==
    /\ wpc[w] = "loop"
    /\ Goto(w, LoopTest)
    /\ UNCHANGED <<stream_running, stop_event, force_reconnect, last_heartbeat,
                   now, backoff_seconds, consecutive_429_errors, mon_pc,
                   stream_connected, stream_status, history_worker_alive>>
    /\ StreamOnly

RECURSIVE SumUpTo(_, _)
SumUpTo(f, n) == IF n = 0 THEN 0 ELSE f[n] + SumUpTo(f, n - 1)

\* 429 responses the live threads have counted since their last success
Pending429 == SumUpTo(consecutive_429_errors, MaxWorkers)

ConnectResults == {"token_error", "ok", "429", "http_error", "request_exception"}

\* one connection attempt: load_config / HomeConnectClient / get_access_token,
\* requests.get(EVENTS_URL, ...), response.raise_for_status() and, connected,
\* self._update_heartbeat()
W_Connect(w) ==
    /\ wpc[w] = "connect"
    /\ \E r \in ConnectResults :
         CASE r = "ok" ->
                /\ IF consecutive_429_errors[w] > 0
                   THEN /\ consecutive_429_errors' =
                             [consecutive_429_errors EXCEPT ![w] = 0]
                        /\ backoff_seconds' =
                             [backoff_seconds EXCEPT ![w] = InitialBackoff]
                   ELSE UNCHANGED <<consecutive_429_errors, backoff_seconds>>
                /\ last_heartbeat' = now
                /\ streak_429' = [streak_429 EXCEPT ![w] = 0]
                /\ Goto(w, "streaming")
           [] r = "429" ->
                /\ Pending429 < Max429
                /\ consecutive_429_errors' =
                     [consecutive_429_errors EXCEPT ![w] = @ + 1]
                /\ UNCHANGED <<backoff_seconds, last_heartbeat>>
                /\ streak_429' = [streak_429 EXCEPT ![w] = @ + 1]
                /\ Goto(w, "sleep_429")
           [] OTHER ->
                /\ UNCHANGED <<consecutive_429_errors, backoff_seconds,
                               last_heartbeat, streak_429>>
                /\ Goto(w, "sleep_retry")
    /\ UNCHANGED <<stream_running, stop_event, force_reconnect,
                   now, mon_pc, stream_connected, stream_status,
                   history_worker_alive>>
    /\ NotStream

\* every pause of the connect loop on the 429 schedule
SleepForBackoff(w) ==
    CASE wpc[w] \in {"sleep_429", "sleep_retry"} -> backoff_seconds[w]
      [] wpc[w] = "sleep_err" -> ErrorPause
      [] OTHER -> 0

\* the seconds thread w is sleeping for
SleepFor(w) ==
    CASE wpc[w] = "sleep_429" -> backoff_seconds[w]
      [] wpc[w] = "sleep_retry" -> RetryPause
      [] wpc[w] = "sleep_err" -> ErrorPause
      [] OTHER -> 0

\* a pause after a failed attempt that starts the 429 schedule afresh
W_WakeRetryResets(w) ==
    /\ wpc[w] = "sleep_retry"
    /\ backoff_seconds' = [backoff_seconds EXCEPT ![w] = InitialBackoff]
    /\ Goto(w, LoopTest)
    /\ UNCHANGED <<stream_running, stop_event, force_reconnect, last_heartbeat,
                   now, consecutive_429_errors, mon_pc, stream_connected,
                   stream_status, history_worker_alive>>
    /\ StreamOnly

\* time.sleep(10); continue; the while condition
W_WakeRetry(w) ==
    /\ wpc[w] = "sleep_retry"
    /\ Goto(w, LoopTest)
    /\ UNCHANGED <<stream_running, stop_event, force_reconnect, last_heartbeat,
                   now, backoff_seconds, consecutive_429_errors, mon_pc,
                   stream_connected, stream_status, history_worker_alive>>
    /\ StreamOnly

\* time.sleep(backoff_seconds); backoff_seconds = min(...); continue; the
\* while condition
W_Wake429(w) ==
    /\ wpc[w] = "sleep_429"
    /\ backoff_seconds' = [backoff_seconds EXCEPT ![w] = NextBackoff(@)]
    /\ Goto(w, LoopTest)
    /\ UNCHANGED <<stream_running, stop_event, force_reconnect, last_heartbeat,
                   now, consecutive_429_errors, mon_pc, stream_connected,
                   stream_status, history_worker_alive>>
    /\ StreamOnly

FrameKinds == {"KEEP-ALIVE", "EMPTY", "MALFORMED", "REAL"}

\* one iteration of `for event in sse_client.events()`: the upstream delivers
\* frame f, the thread tests the stop flag and _force_reconnect, then handles f
W_Frame(w) ==
    /\ wpc[w] = "streaming"
    /\ \E f \in FrameKinds :
         IF stop_event
         THEN /\ Goto(w, "after_loop")
              /\ UNCHANGED <<force_reconnect, last_heartbeat>>
         ELSE IF force_reconnect
         THEN /\ force_reconnect' = FALSE
              /\ Goto(w, "after_loop")
              /\ UNCHANGED last_heartbeat
         ELSE /\ last_heartbeat' =
                   IF f \in {"KEEP-ALIVE", "REAL"} THEN now ELSE last_heartbeat
              /\ UNCHANGED <<force_reconnect, wpc>>
    /\ UNCHANGED <<stream_running, stop_event, now, backoff_seconds,
                   consecutive_429_errors, mon_pc, stream_connected,
                   stream_status, history_worker_alive>>
    /\ StreamOnly

\* the upstream closes the stream: the for loop ends
W_StreamClosed(w) ==
    /\ wpc[w] = "streaming"
    /\ Goto(w, "after_loop")
    /\ UNCHANGED <<stream_running, stop_event, force_reconnect, last_heartbeat,
                   now, backoff_seconds, consecutive_429_errors, mon_pc,
                   stream_connected, stream_status, history_worker_alive>>
    /\ StreamOnly

\* an exception that ends the thread
W_StreamErrorEnds(w) ==
    /\ wpc[w] = "streaming"
    /\ Goto(w, "exit")
    /\ UNCHANGED <<stream_running, stop_event, force_reconnect, last_heartbeat,
                   now, backoff_seconds, consecutive_429_errors, mon_pc,
                   stream_connected, stream_status, history_worker_alive>>
    /\ StreamOnly

\* reading the stream raises: except Exception: time.sleep(5)
W_StreamError(w) ==
    /\ wpc[w] = "streaming"
    /\ Goto(w, "sleep_err")
    /\ UNCHANGED <<stream_running, stop_event, force_reconnect, last_heartbeat,
                   now, backoff_seconds, consecutive_429_errors, mon_pc,
                   stream_connected, stream_status, history_worker_alive>>
    /\ StreamOnly

\* if not self._check_heartbeat(): break      (the break leaves the while loop)
W_AfterLoop(w) ==
    /\ wpc[w] = "after_loop"
    /\ Goto(w, IF ~CheckHeartbeat THEN "exit" ELSE "reset")
    /\ UNCHANGED <<stream_running, stop_event, force_reconnect, last_heartbeat,
                   now, backoff_seconds, consecutive_429_errors, mon_pc,
                   stream_connected, stream_status, history_worker_alive>>
    /\ StreamOnly

W_WakeErr(w) ==
    /\ wpc[w] = "sleep_err"
    /\ Goto(w, "reset")
    /\ UNCHANGED <<stream_running, stop_event, force_reconnect, last_heartbeat,
                   now, backoff_seconds, consecutive_429_errors, mon_pc,
                   stream_connected, stream_status, history_worker_alive>>
    /\ StreamOnly

\* with self._heartbeat_lock: self._last_heartbeat = 0; the while condition
W_Reset(w) ==
    /\ wpc[w] = "reset"
    /\ last_heartbeat' = 0
    /\ Goto(w, LoopTest)
    /\ UNCHANGED <<stream_running, stop_event, force_reconnect, now,
                   backoff_seconds, consecutive_429_errors, mon_pc,
                   stream_connected, stream_status, history_worker_alive>>
    /\ StreamOnly

\* self._stream_running = False; the thread ends
W_Exit(w) ==
    /\ wpc[w] = "exit"
    /\ stream_running' = FALSE
    /\ Goto(w, "none")
    /\ backoff_seconds' = [backoff_seconds EXCEPT ![w] = InitialBackoff]
    /\ consecutive_429_errors' = [consecutive_429_errors EXCEPT ![w] = 0]
    /\ UNCHANGED <<stop_event, force_reconnect, last_heartbeat, now, mon_pc,
                   stream_connected, stream_status, history_worker_alive>>
    /\ streak_429' = [streak_429 EXCEPT ![w] = 0]
    /\ NotStream

(***************************************************************************)
(* _heartbeat_monitor, one action per step of a tick                       *)
(***************************************************************************)
\* time.sleep(check_interval); if not self._stream_running: continue;
\* stream_connected = self._check_heartbeat()
M_Wake ==
    /\ mon_pc = "sleep"
    /\ IF stream_running
       THEN /\ stream_connected' = CheckHeartbeat
            /\ mon_pc' = "bcast"
       ELSE UNCHANGED <<stream_connected, mon_pc>>
    /\ UNCHANGED <<stream_running, stop_event, force_reconnect, last_heartbeat,
                   now, wpc, backoff_seconds, consecutive_429_errors,
                   stream_status, history_worker_alive>>
    /\ StreamOnly

\* last_heartbeat_time = ...; self.broadcast_event("STREAM_STATUS", {...})
M_Broadcast ==
    /\ mon_pc = "bcast"
    /\ stream_status' = [sent |-> TRUE,
                         stream_connected |-> stream_connected,
                         last_heartbeat |-> last_heartbeat]
    /\ mon_pc' = "decide"
    /\ UNCHANGED <<stream_running, stop_event, force_reconnect, last_heartbeat,
                   now, wpc, backoff_seconds, consecutive_429_errors,
                   stream_connected, history_worker_alive>>
    /\ StreamOnly

TimeoutDetectedNegationLost == stream_connected /\ last_heartbeat > 0

\* if not stream_connected and self._last_heartbeat > 0:
TimeoutDetected == ~stream_connected /\ last_heartbeat > 0

M_Decide ==
    /\ mon_pc = "decide"
    /\ IF TimeoutDetected
       THEN /\ mon_pc' = "force"
            /\ UNCHANGED <<stream_status, stream_connected>>
       ELSE /\ mon_pc' = "sleep"
            /\ stream_status' = NoStatus
            /\ stream_connected' = TRUE
    /\ UNCHANGED <<stream_running, stop_event, force_reconnect, last_heartbeat,
                   now, wpc, backoff_seconds, consecutive_429_errors,
                   history_worker_alive>>
    /\ StreamOnly

\* self._force_reconnect = True
M_Force ==
    /\ mon_pc = "force"
    /\ force_reconnect' = TRUE
    /\ mon_pc' = "resethb"
    /\ UNCHANGED <<stream_running, stop_event, last_heartbeat, now, wpc,
                   backoff_seconds, consecutive_429_errors, stream_connected,
                   stream_status, history_worker_alive>>
    /\ StreamOnly

\* with self._heartbeat_lock: self._last_heartbeat = 0
M_ResetHeartbeat ==
    /\ mon_pc = "resethb"
    /\ last_heartbeat' = 0
    /\ mon_pc' = "sleep"
    /\ stream_status' = NoStatus
    /\ stream_connected' = TRUE
    /\ UNCHANGED <<stream_running, stop_event, force_reconnect, now, wpc,
                   backoff_seconds, consecutive_429_errors,
                   history_worker_alive>>
    /\ StreamOnly

(***************************************************************************)
(* The clock                                                               *)
(***************************************************************************)
\* Seconds pass only while every thread is blocked: asleep, in a network call
\* or waiting for the next frame. The statements in between take no time.
Blocked ==
    /\ mon_pc \in {"none", "sleep"}
    /\ \A w \in Workers :
         wpc[w] \in {"none", "connect", "streaming",
                     "sleep_retry", "sleep_429", "sleep_err"}

Tick ==
    /\ Blocked
    /\ now + TimeStep <= TimeStep * MaxTicks
    /\ now' = now + TimeStep
    /\ UNCHANGED <<stream_running, stop_event, force_reconnect, last_heartbeat,
                   wpc, backoff_seconds, consecutive_429_errors, mon_pc,
                   stream_connected, stream_status, history_worker_alive>>
    /\ StreamOnly

(***************************************************************************)
(* The other components after construction                                 *)
(***************************************************************************)
\* no broadcast_event call has been made
NoBroadcast ==
    [active |-> FALSE, done |-> FALSE, event_type |-> "",
     payload |-> [items |-> <<>>], idx |-> 0,
     registered |-> <<>>, attempts |-> <<>>, succeeded |-> {},
     disconnected |-> <<>>]

\* the reader handles no frame; n counts the frames decoded
NoFrame == [n |-> 0, type |-> "", payload |-> [items |-> <<>>]]

\* EventStreamManager.__init__: empty registry, empty queue
PipeInit ==
    /\ history_queue = <<>>
    /\ hw_item = <<>>
    /\ clients = <<>>
    /\ clients_lock = "free"
    /\ bc = NoBroadcast
    /\ r_pc = "wait"
    /\ r_frame = NoFrame
    /\ reader_bcast = 0
    /\ enqueued = 0
    /\ add_calls = <<>>
    /\ handler = [c \in ClientIds |-> "none"]

\* no HistoryManager call has returned yet
NoResult == [call |-> "none", event_type |-> <<>>, limit |-> <<>>,
             before_timestamp |-> <<>>, rows |-> <<>>]

Initializers == 1..MaxInits

\* the events of the legacy file
LegacyEvents ==
    [k \in 1..MaxLegacy |-> [timestamp |-> k, type |-> "status", data |-> k]]

\* rows that the events table holds at most in MigrateSpec
MaxMigrated == MaxInits * MaxLegacy + 1

\* an initializer that is not in HistoryManager.__init__ and has built no
\* manager yet
NoInit == "idle"

\* __init__ has returned: the initializer has its manager
Built == "built"

Adders == 1..MaxAdders

\* a thread that is not in add_event; ok counts its calls that stored a row
NoAdder == [pc |-> "idle", ok |-> 0]

\* HistoryManager.__init__: the events table exists and is empty
HistInit ==
    /\ events = <<>>
    /\ result = NoResult
    /\ json_file = TRUE
    /\ backup_file = FALSE
    /\ hm = [p \in Initializers |-> NoInit]
    /\ ad = [a \in Adders |-> NoAdder]

\* the token the auth flow left in the token file: it has a refresh token
\* and is valid until the clock's next step
FirstToken == [gen |-> 1, expires_at |-> 2 * TimeStep, refresh_token |-> TRUE]

NoToken == [gen |-> 0, expires_at |-> 0, refresh_token |-> FALSE]

\* no _request call: pc is the position in _request, http the HTTP requests
\* it sent, forced the refresh calls it made after a 401, retry_attempted
\* the client's flag, status what resp holds
NoRequest == [pc |-> "idle", http |-> 0, forced |-> 0,
              retry_attempted |-> FALSE, status |-> "none"]

TokenInit ==
    /\ rq = [c \in Requesters |-> NoRequest]
    /\ token_file = FirstToken
    /\ tokens = [c \in Callers |-> NoToken]
    /\ refresh_lock = 0
    /\ tpc = [c \in Callers |-> "start"]
    /\ seen_expired = [c \in Callers |-> 0]
    /\ refresh_calls = <<>>
    /\ refresh_failed = FALSE

Init == StreamInit /\ PipeInit /\ HistInit /\ TokenInit

\* the steps thread w takes by itself (not inputs of the upstream)
W_Step(w) ==
    \/ W_LoopTest(w)
    \/ W_Connect(w)
    \/ W_WakeRetry(w)
    \/ W_Wake429(w)
    \/ W_AfterLoop(w)
    \/ W_WakeErr(w)
    \/ W_Reset(w)
    \/ W_Exit(w)

\* what the upstream does to thread w's connection
W_Input(w) ==
    \/ W_Frame(w)
    \/ W_StreamClosed(w)
    \/ W_StreamError(w)

M_Step ==
    \/ M_Wake
    \/ M_Broadcast
    \/ M_Decide
    \/ M_Force
    \/ M_ResetHeartbeat

Next ==
    \/ Start
    \/ Stop
    \/ \E w \in Workers : W_Step(w)
    \/ \E w \in Workers : W_Input(w)
    \/ M_Step
    \/ Tick

Spec == Init /\ [][Next]_vars

\* the threads are scheduled and time passes; the upstream owes nothing
FairSpec ==
    /\ Spec
    /\ \A w \in Workers : WF_vars(W_Step(w))
    /\ WF_vars(M_Step)
    /\ WF_vars(Tick)

(***************************************************************************)
(* Claims about the stream reader and the heartbeat monitor                *)
(***************************************************************************)
Connecting(w) == wpc[w] = "connect"
Backoff(w) == wpc[w] \in {"sleep_retry", "sleep_429", "sleep_err"}
Streaming(w) == wpc[w] = "streaming"
Stale == last_heartbeat > 0 /\ now - last_heartbeat >= HeartbeatTimeout

\* C1: whenever a thread's per-connection event loop ends while the stop flag
\* is not set, the thread goes on to reset the heartbeat and reconnect; a
\* thread leaves its while loop only when the stop flag is set.
C1_LoopsBackUnlessStopped ==
    [][\A w \in Workers :
         /\ (wpc[w] = "after_loop" /\ wpc'[w] # "after_loop" /\ ~stop_event)
               => wpc'[w] = "reset"
         /\ (wpc[w] # "exit" /\ wpc'[w] = "exit") => stop_event]_vars

\* thread w is the only stream-reader thread
Alone(w) == \A v \in Workers \ {w} : wpc[v] = "none"

\* C2: while the manager is running (start() called, stop() not), the only
\* stream-reader thread, streaming on a connection whose heartbeat is older
\* than heartbeat_timeout, eventually leaves that connection, unless a frame
\* refreshes the heartbeat first; the upstream is not obliged to deliver a
\* frame or to close the stream.
C2_StalledConnectionAbandoned ==
    \A w \in Workers :
      (Streaming(w) /\ Stale /\ Alone(w) /\ stream_running)
        ~> \/ ~Streaming(w)
           \/ ~Alone(w)
           \/ ~stream_running
           \/ (last_heartbeat > 0 /\ ~Stale)

\* C3: a heartbeat older than heartbeat_timeout makes the tick's check report
\* "not connected"; a tick whose check reported that and which still finds a
\* heartbeat recorded has broadcast STREAM_STATUS with stream_connected=false,
\* then sets force_reconnect and resets the heartbeat to "none yet".
C3_StaleTickForcesReconnect ==
    [][/\ (mon_pc = "sleep" /\ mon_pc' = "bcast" /\ last_heartbeat > 0
              /\ now - last_heartbeat > HeartbeatTimeout)
            => stream_connected' = FALSE
       /\ (mon_pc = "decide" /\ mon_pc' # "decide" /\ ~stream_connected
              /\ last_heartbeat > 0)
            => /\ stream_status.sent
               /\ stream_status.stream_connected = FALSE
               /\ mon_pc' = "force"
       /\ (mon_pc = "force" /\ mon_pc' # "force")
            => force_reconnect' /\ mon_pc' = "resethb"
       /\ (mon_pc = "resethb" /\ mon_pc' # "resethb")
            => last_heartbeat' = 0 /\ mon_pc' = "sleep"]_vars

\* the tick found the stream stale, has broadcast and set the flag
C3_Witness ==
    /\ mon_pc = "resethb"
    /\ force_reconnect
    /\ stream_status.sent /\ ~stream_status.stream_connected
    /\ now - stream_status.last_heartbeat > HeartbeatTimeout

\* C4: at most one stream-reader thread is connecting, streaming or in backoff.
C4_AtMostOneWorker ==
    Cardinality({w \in Workers : Connecting(w) \/ Streaming(w) \/ Backoff(w)}) <= 1

\* the n-th consecutive 429 sleeps min(60 * 2^(n-1), 300) seconds
ExpectedBackoff(n) == Min(InitialBackoff * 2 ^ (n - 1), MaxBackoffSeconds)

\* C7: a thread that received its n-th 429 since its last successful
\* connection sleeps 60, 120, 240, 300, 300, ... seconds: never less than 60,
\* never more than 300, and 60 again for the first 429 after a success.
C7_BackoffSchedule ==
    \A w \in Workers :
      wpc[w] = "sleep_429" =>
        /\ streak_429[w] >= 1
        /\ SleepFor(w) = ExpectedBackoff(streak_429[w])
        /\ SleepFor(w) >= InitialBackoff
        /\ SleepFor(w) <= MaxBackoffSeconds

\* a fifth consecutive 429 sleeps 300 seconds again
C7_Witness ==
    \E w \in Workers :
      wpc[w] = "sleep_429" /\ streak_429[w] = 5 /\ SleepFor(w) = 300

\* thread w is in its while loop
InLoop(w) == wpc[w] \notin {"none", "exit"}

\* C11: stop() reaches every stream-reader thread that is in its loop (the
\* call sets the stop flag unless the flag is already set); with the stop
\* flag set _stream_running is false, a thread that receives a frame or
\* whose pause ends leaves for the end of its loop, and no thread starts a
\* connection attempt.
C11_StopEndsReader ==
    /\ [](\A w \in Workers : InLoop(w) => (stream_running \/ stop_event))
    /\ [](stop_event => ~stream_running)
    /\ [][\A w \in Workers :
            (stop_event /\ stop_event' /\ wpc'[w] # wpc[w])
            => /\ wpc'[w] # "connect"
               /\ wpc[w] = "streaming" => wpc'[w] \in {"after_loop", "sleep_err"}
               /\ wpc[w] \in {"loop", "sleep_retry", "sleep_429", "reset"}
                    => wpc'[w] = "exit"]_vars

\* C12: while _stream_running is true a start() call changes nothing: no
\* stream-reader, history-worker or heartbeat-monitor thread is spawned and
\* the stop flag, force_reconnect and _stream_running keep their values.
C12_StartIdempotent ==
    stream_running => ~ENABLED (Start /\ vars' # vars)

\* start() can be called while a reader streams and the monitor and the
\* history worker run
C12_Witness ==
    /\ stream_running
    /\ history_worker_alive
    /\ mon_pc # "none"
    /\ \E w \in Workers : Streaming(w) /\ Alone(w)
    /\ ENABLED Start

\* C13: every tick of the heartbeat monitor, whatever the outcome of the
\* liveness check and whatever the reader does, passes one STREAM_STATUS to
\* broadcast_event: a monitor that wakes from its sleep goes on to the
\* broadcast, and the broadcast sends one status with the stream_connected
\* it computed on this tick.
C13_StatusOnEveryTick ==
    /\ mon_pc = "sleep" => ENABLED (M_Wake /\ mon_pc' = "bcast")
    /\ mon_pc = "bcast" => ENABLED (M_Broadcast /\ stream_status'.sent)

\* C14: a STREAM_STATUS reports stream_connected = true exactly when a
\* heartbeat (KEEP-ALIVE or real event) is on record and less than
\* heartbeat_timeout old at the tick: with no heartbeat on record (none
\* observed yet, reader connecting or backing off) or with a stalled stream
\* the tick computes false, and the status sent carries what the tick computed.
C14_StatusTruthful ==
    /\ [][(mon_pc = "sleep" /\ mon_pc' = "bcast")
            => (stream_connected' <=> (/\ last_heartbeat > 0
                                       /\ now - last_heartbeat < HeartbeatTimeout))]_vars
    /\ [][(~stream_status.sent /\ stream_status'.sent)
            => stream_status'.stream_connected = stream_connected]_vars

\* C20: a connection attempt that fails with a connection error, a timeout,
\* an HTTP error other than 429 or without an access token does not end the
\* thread: it pauses for 10 seconds, and when the pause ends the thread makes
\* another attempt, unless the stop flag was set meanwhile.
C20_FailedAttemptRetried ==
    /\ [](\A w \in Workers : wpc[w] = "sleep_retry" => SleepFor(w) = 10)
    /\ [][\A w \in Workers :
            /\ (wpc[w] = "connect" /\ wpc'[w] # "connect")
                 => wpc'[w] \in {"streaming", "sleep_429", "sleep_retry"}
            /\ (wpc[w] = "sleep_retry" /\ wpc'[w] # "sleep_retry")
                 => wpc'[w] = IF stop_event THEN "exit" ELSE "connect"]_vars

\* a failed attempt: the thread pauses, the stop flag is clear and the end
\* of the pause is its next step
C20_Witness ==
    \E w \in Workers :
      /\ wpc[w] = "sleep_retry"
      /\ Alone(w)
      /\ stream_running
      /\ ~stop_event
      /\ ENABLED (W_WakeRetry(w) /\ wpc'[w] = "connect")

(***************************************************************************)
(* HistoryManager: the events table, add_event and get_history             *)
(*                                                                         *)
(* A row is [timestamp, type, data]. Timestamps are ISO-8601 strings that  *)
(* the queries compare as strings; the model keeps a timestamp as its rank *)
(* in that order, 0 standing for the empty string. An optional argument is *)
(* <<>> for None and <<v>> for the value v.                                *)
(***************************************************************************)
EventTypes == {"status", "event"}

\* Python's truth value of an optional int or str argument
Truthy(arg) == arg # <<>> /\ arg[1] # 0

\* an add_event that writes over the latest row
AddEventReplaces(ev, event_type, data, timestamp) ==
    SubSeq(ev, 1, Len(ev) - 1) \o
    <<[timestamp |-> timestamp, type |-> event_type, data |-> data]>>

\* INSERT INTO events (timestamp, type, data)
AddEvent(ev, event_type, data, timestamp) ==
    Append(ev, [timestamp |-> timestamp, type |-> event_type, data |-> data])

\* the WHERE clause: the rowids that satisfy the conditions
Matching(ev, event_type, before_timestamp) ==
    {i \in 1..Len(ev) :
        /\ event_type # <<>> => ev[i].type = event_type[1]
        /\ Truthy(before_timestamp) => ev[i].timestamp < before_timestamp[1]}

\* the rowids of S as a sequence in the order R, a set of pairs <<i, j>>
\* that says rowid i comes before rowid j
Ordered(S, R) ==
    [k \in 1..Cardinality(S) |->
        CHOOSE i \in S : Cardinality({j \in S : <<j, i>> \in R}) = k - 1]

\* ORDER BY timestamp ASC: rows of one timestamp come in rowid order
Ascending(ev, S) ==
    Ordered(S, {p \in S \X S :
                  \/ ev[p[1]].timestamp < ev[p[2]].timestamp
                  \/ /\ ev[p[1]].timestamp = ev[p[2]].timestamp
                     /\ p[1] < p[2]})

\* ORDER BY timestamp DESC: the scan of idx_timestamp backwards gives rows
\* of one timestamp in descending rowid order; with a type condition the
\* rows come through idx_type and a sorter that keeps them in rowid order
Descending(ev, S, event_type) ==
    Ordered(S, {p \in S \X S :
                  \/ ev[p[1]].timestamp > ev[p[2]].timestamp
                  \/ /\ ev[p[1]].timestamp = ev[p[2]].timestamp
                     /\ IF event_type # <<>> THEN p[1] < p[2]
                                             ELSE p[1] > p[2]})

\* LIMIT n
Limit(seq, n) == SubSeq(seq, 1, Min(n, Len(seq)))

\* list(reversed(rows))
Reversed(seq) == [k \in 1..Len(seq) |-> seq[Len(seq) + 1 - k]]

\* the limit takes the first rows in ascending order
GetHistoryFirstRows(ev, event_type, limit, before_timestamp) ==
    LET S == Matching(ev, event_type, before_timestamp)
        asc == Ascending(ev, S)
        rowids == IF Truthy(limit) THEN Limit(asc, limit[1]) ELSE asc
    IN  [k \in 1..Len(rowids) |-> ev[rowids[k]]]

GetHistory(ev, event_type, limit, before_timestamp) ==
    LET S == Matching(ev, event_type, before_timestamp)
        desc == Descending(ev, S, event_type)
        rowids ==
            IF Truthy(before_timestamp)
            THEN Reversed(IF Truthy(limit) THEN Limit(desc, limit[1]) ELSE desc)
            ELSE IF Truthy(limit)
                 THEN Reversed(Limit(desc, limit[1]))
                 ELSE Ascending(ev, S)
    IN  [k \in 1..Len(rowids) |-> ev[rowids[k]]]

OptionalTypes == {<<>>} \cup {<<t>> : t \in EventTypes}

OptionalLimits == {<<>>} \cup {<<n>> : n \in 0..MaxRows}

OptionalCursors == {<<>>} \cup {<<t>> : t \in 0..(MaxTs + 1)}

\* add_event(event_type, data, timestamp) with the timestamp given
H_AddEvent ==
    /\ Len(events) < MaxRows
    /\ \E t \in EventTypes, ts \in 1..MaxTs :
         events' = AddEvent(events, t, Len(events) + 1, ts)
    /\ result' = NoResult
    /\ UNCHANGED <<migVars, ad, streamVars, pipeVars, tokenVars>>

\* one get_history(event_type, limit, before_timestamp) call by a caller
\* that has taken the result of its call before
Query(t, l, b) ==
    /\ result = NoResult
    /\ result' = [call |-> "get_history", event_type |-> t, limit |-> l,
                  before_timestamp |-> b,
                  rows |-> GetHistory(events, t, l, b)]
    /\ UNCHANGED <<events, migVars, ad, streamVars, pipeVars, tokenVars>>

\* get_history with any arguments
H_Query ==
    \E t \in OptionalTypes, l \in OptionalLimits, b \in OptionalCursors :
        Query(t, l, b)

\* get_history()
H_GetAll == Query(<<>>, <<>>, <<>>)

\* the caller takes the rows it got
H_Taken ==
    /\ result # NoResult
    /\ result' = NoResult
    /\ UNCHANGED <<events, migVars, ad, streamVars, pipeVars, tokenVars>>

HistNext == H_AddEvent \/ H_Query \/ H_Taken

HistSpec == Init /\ [][HistNext]_vars

\* the heartbeat on record is younger than heartbeat_timeout
Fresh == last_heartbeat > 0 /\ now - last_heartbeat < HeartbeatTimeout

\* C37: the monitor sets force_reconnect, and resets the heartbeat, only
\* while the heartbeat is still stale: with a heartbeat on record that the
\* reader refreshed after the tick's check, it does neither
C37_ForcesOnlyWhileStale ==
    [][/\ (mon_pc = "force" /\ mon_pc' # "force") => ~Fresh
       /\ (mon_pc = "resethb" /\ mon_pc' # "resethb") => ~Fresh]_vars

\* C38: a force_reconnect request does not outlive the connection it was
\* raised for: when the only reader thread establishes a connection, no
\* request is pending that would make it leave on the first frame
C38_NoRequestPendingOnNewConnection ==
    [][\A w \in Workers :
         (Alone(w) /\ wpc[w] = "connect" /\ wpc'[w] = "streaming")
            => ~force_reconnect']_vars

\* C40: a thread's backoff delay changes only at the end of the pause after
\* a 429 (doubled, at most 300) and at a successful attempt after at least
\* one 429 (back to 60); an attempt that fails otherwise, and the pause
\* after it, change neither the delay nor the count of 429s
C40_BackoffChangesOnlyOn429OrSuccess ==
    [][\A w \in Workers :
         /\ (backoff_seconds'[w] # backoff_seconds[w]
               /\ wpc[w] # "none" /\ wpc'[w] # "none")
              => \/ /\ wpc[w] = "sleep_429"
                    /\ backoff_seconds'[w] =
                         Min(2 * backoff_seconds[w], MaxBackoffSeconds)
                 \/ /\ wpc[w] = "connect" /\ wpc'[w] = "streaming"
                    /\ consecutive_429_errors[w] > 0
                    /\ backoff_seconds'[w] = InitialBackoff
         /\ ((wpc[w] = "connect" /\ wpc'[w] = "sleep_retry")
               \/ (wpc[w] = "sleep_retry" /\ wpc'[w] # "sleep_retry"))
              => /\ backoff_seconds'[w] = backoff_seconds[w]
                 /\ consecutive_429_errors'[w] = consecutive_429_errors[w]
         /\ (wpc[w] = "connect" /\ wpc'[w] = "sleep_429")
              => /\ backoff_seconds'[w] = backoff_seconds[w]
                 /\ consecutive_429_errors'[w] = consecutive_429_errors[w] + 1]_vars

\* after one 429 and its pause the delay is 120; the next attempt failed
\* without a 429 and the thread is about to try again with the delay kept
C40_Witness ==
    \E w \in Workers :
      /\ wpc[w] = "sleep_retry"
      /\ backoff_seconds[w] = 2 * InitialBackoff
      /\ consecutive_429_errors[w] = 1
      /\ ~stop_event
      /\ ENABLED (W_WakeRetry(w) /\ wpc'[w] = "connect"
                    /\ backoff_seconds'[w] = 2 * InitialBackoff)

(***************************************************************************)
(* Claims about get_history                                                *)
(***************************************************************************)
\* the rows of the table a page with cursor T may hold
OlderThan(T) == {i \in 1..Len(events) : events[i].timestamp < T}

\* C9: for every cursor T and every limit L, L = 0 included,
\* get_history(before_timestamp=T, limit=L) returns at most L events, each
\* with a timestamp strictly less than T, in ascending timestamp order, and
\* no event older than T that it leaves out is more recent than one it
\* returns.
C9_PageBound ==
    (/\ result.call = "get_history"
     /\ result.event_type = <<>>
     /\ result.limit # <<>>
     /\ Truthy(result.before_timestamp))
    => LET L == result.limit[1]
           T == result.before_timestamp[1]
           rows == result.rows
           left_out == {i \in OlderThan(T) :
                          \A k \in 1..Len(rows) : rows[k].data # i}
       IN  /\ Len(rows) <= L
           /\ \A k \in 1..Len(rows) : rows[k].timestamp < T
           /\ \A k \in 1..Len(rows) - 1 :
                rows[k].timestamp <= rows[k + 1].timestamp
           /\ \A i \in left_out : \A k \in 1..Len(rows) :
                events[i].timestamp <= rows[k].timestamp

\* the rows of the table with the type the call asks for
OfType(t) == {i \in 1..Len(events) : t # <<>> => events[i].type = t[1]}

SlotsPerDay == 2

Day(timestamp) == timestamp \div SlotsPerDay

Midnight(day) == day * SlotsPerDay

\* program identifiers as the appliance and the legacy file give them
Programs ==
    {<<"Beverage", "Espresso">>, <<"CleaningModes", "Rinsing">>,
     <<"CleaningModes", "Beverage">>, <<"Beverage", "Rinsing">>,
     <<"Rinsing">>, <<"Espresso">>, <<>>}

\* the data of a program_started event; the program may be missing
NoProgramData == [options |-> <<>>]

ProgramData == {[program |-> p] : p \in Programs} \cup {NoProgramData}

\* data.get("program", "Unknown")
ProgramKey(data) ==
    IF "program" \in DOMAIN data THEN data.program ELSE <<"Unknown">>

\* str.lower() of a word
LowerWord(w) ==
    CASE w = "CleaningModes" -> "cleaningmodes"
      [] w = "Beverage" -> "beverage"
      [] w = "Rinsing" -> "rinsing"
      [] w = "Espresso" -> "espresso"
      [] w = "Unknown" -> "unknown"
      [] OTHER -> w

\* the markers and keywords that are substrings of a word
Within(w) ==
    CASE w = "cleaningmodes" -> {"cleaningmodes", "cleaning"}
      [] w = "beverage" -> {"beverage"}
      [] w = "rinsing" -> {"rinsing"}
      [] w = "descaling" -> {"descaling"}
      [] OTHER -> {}

\* marker in program_key.lower()
Contains(program_key, marker) ==
    \E k \in 1..Len(program_key) :
        marker \in Within(LowerWord(program_key[k]))

CleaningKeywords == {"rinsing", "descaling", "cleaning"}

\* the beverage marker is looked for first
IsBrewProgramBeverageFirst(program_key) ==
    IF program_key = <<>> THEN FALSE
    ELSE IF Contains(program_key, "beverage") THEN TRUE
    ELSE IF Contains(program_key, "cleaningmodes") THEN FALSE
    ELSE IF \E keyword \in CleaningKeywords : Contains(program_key, keyword)
         THEN FALSE
    ELSE TRUE

\* HistoryManager._is_brew_program
IsBrewProgram(program_key) ==
    IF program_key = <<>> THEN FALSE
    ELSE IF Contains(program_key, "cleaningmodes") THEN FALSE
    ELSE IF Contains(program_key, "beverage") THEN TRUE
    ELSE IF \E keyword \in CleaningKeywords : Contains(program_key, keyword)
         THEN FALSE
    ELSE TRUE

\* the key set has one day more than asked for
DailyUsageFromCutoff(ev, days, today) ==
    LET cutoff == Midnight(today - days)
        rows == Ascending(ev, {i \in 1..Len(ev) :
                                 /\ ev[i].type = "program_started"
                                 /\ ev[i].timestamp >= cutoff})
        date_keys_in_range == (today - days)..today
    IN  [date_key \in date_keys_in_range |->
            Cardinality({k \in 1..Len(rows) :
                /\ IsBrewProgram(ProgramKey(ev[rows[k]].data))
                /\ Day(ev[rows[k]].timestamp) = date_key})]

\* HistoryManager.get_daily_usage(days) called on day today: the rows from
\* the cutoff on, the keys of the last `days` days, the count of the brew
\* programs of each key
DailyUsage(ev, days, today) ==
    LET cutoff == Midnight(today - days)
        rows == Ascending(ev, {i \in 1..Len(ev) :
                                 /\ ev[i].type = "program_started"
                                 /\ ev[i].timestamp >= cutoff})
        date_keys_in_range == (today - days + 1)..today
    IN  [date_key \in date_keys_in_range |->
            Cardinality({k \in 1..Len(rows) :
                /\ IsBrewProgram(ProgramKey(ev[rows[k]].data))
                /\ Day(ev[rows[k]].timestamp) = date_key})]

\* every program_started event gets an entry
ProgramCountsUnclassified(ev) ==
    LET rows == {i \in 1..Len(ev) : ev[i].type = "program_started"}
        keys == {ProgramKey(ev[i].data) : i \in rows}
    IN  [program_key \in keys |->
            Cardinality({i \in rows : ProgramKey(ev[i].data) = program_key})]

\* HistoryManager.get_program_counts
ProgramCounts(ev) ==
    LET rows == {i \in 1..Len(ev) : ev[i].type = "program_started"}
        brew == {i \in rows : IsBrewProgram(ProgramKey(ev[i].data))}
        keys == {ProgramKey(ev[i].data) : i \in brew}
    IN  [program_key \in keys |->
            Cardinality({i \in brew : ProgramKey(ev[i].data) = program_key})]

\* add_event and the legacy import: an event of any type and time
S_AddEvent ==
    /\ Len(events) < MaxStored
    /\ \E ts \in 1..MaxTs :
         \/ \E data \in ProgramData :
              events' = AddEvent(events, "program_started", data, ts)
         \/ events' = AddEvent(events, "status_changed", NoProgramData, ts)
    /\ result' = NoResult
    /\ UNCHANGED <<migVars, ad, streamVars, pipeVars, tokenVars>>

\* get_daily_usage(days) on any day
S_DailyUsage ==
    /\ result = NoResult
    /\ \E days \in 0..(MaxDays + 1), today \in 0..MaxDays :
         result' = [call |-> "get_daily_usage", days |-> days,
                    today |-> today,
                    rows |-> DailyUsage(events, days, today)]
    /\ UNCHANGED <<events, migVars, ad, streamVars, pipeVars, tokenVars>>

\* get_program_counts()
S_ProgramCounts ==
    /\ result = NoResult
    /\ result' = [call |-> "get_program_counts",
                  rows |-> ProgramCounts(events)]
    /\ UNCHANGED <<events, migVars, ad, streamVars, pipeVars, tokenVars>>

StatsNext == S_AddEvent \/ S_DailyUsage \/ S_ProgramCounts \/ H_Taken

StatsSpec == Init /\ [][StatsNext]_vars

\* the store: add_event and the three queries of the events table
StoreNext ==
    \/ S_AddEvent
    \/ H_GetAll
    \/ S_DailyUsage
    \/ S_ProgramCounts
    \/ H_Taken

StoreSpec == Init /\ [][StoreNext]_vars

(***************************************************************************)
(* Claims about the usage statistics                                       *)
(***************************************************************************)
\* the program identifier has the word w among its parts
HasWord(program_key, w) == \E k \in 1..Len(program_key) : program_key[k] = w

\* the classification as stated: the cleaning-mode marker excludes, else
\* the beverage marker includes, else a cleaning keyword excludes, else the
\* identifier is included
StatedBrew(program_key) ==
    IF HasWord(program_key, "CleaningModes") THEN FALSE
    ELSE IF HasWord(program_key, "Beverage") THEN TRUE
    ELSE IF HasWord(program_key, "Rinsing") THEN FALSE
    ELSE TRUE

\* the stored program_started events
ProgramStarts == {i \in 1..Len(events) : events[i].type = "program_started"}

\* the stored program_started events of a non-empty identifier that the
\* stated classification takes for a brew program
Brews ==
    {i \in ProgramStarts : /\ ProgramKey(events[i].data) # <<>>
                           /\ StatedBrew(ProgramKey(events[i].data))}

\* C27: get_daily_usage(days=N), called on day T, returns a mapping whose
\* keys are the N days T-N+1 .. T, and the value of each day is the number
\* of stored program_started events of that day with a brew program; so
\* events of earlier days are counted nowhere.
C27_DailyUsageWindow ==
    result.call = "get_daily_usage"
    => LET N == result.days
           T == result.today
           usage == result.rows
       IN  /\ DOMAIN usage = {d \in (T - MaxDays - 1)..T : d > T - N}
           /\ Cardinality(DOMAIN usage) = N
           /\ \A d \in DOMAIN usage :
                usage[d] = Cardinality({i \in Brews :
                                          Day(events[i].timestamp) = d})

\* a call for two days returned a day with a brew and a day without, while
\* a brew older than the window is stored
C27_Witness ==
    /\ result.call = "get_daily_usage"
    /\ result.days = 2
    /\ \E d \in DOMAIN result.rows : result.rows[d] > 0
    /\ \E d \in DOMAIN result.rows : result.rows[d] = 0
    /\ \E i \in Brews : Day(events[i].timestamp) <= result.today - result.days

\* C28: a stored program_started event whose identifier has the
\* cleaning-mode marker adds to no day of get_daily_usage and has no entry
\* in get_program_counts, whatever else the identifier has: each day's
\* value is at most the number of that day's events without the marker.
C28_CleaningModesNeverCounted ==
    /\ result.call = "get_daily_usage"
       => \A d \in DOMAIN result.rows :
            result.rows[d] <=
                Cardinality({i \in ProgramStarts :
                    /\ Day(events[i].timestamp) = d
                    /\ ~HasWord(ProgramKey(events[i].data), "CleaningModes")})
    /\ result.call = "get_program_counts"
       => \A program_key \in DOMAIN result.rows :
            ~HasWord(program_key, "CleaningModes")

\* a call returned while an event whose identifier has the cleaning-mode
\* marker and the beverage marker is stored, on a day the call covers
C28_Witness ==
    /\ result.call \in {"get_daily_usage", "get_program_counts"}
    /\ \E i \in ProgramStarts :
         /\ HasWord(ProgramKey(events[i].data), "CleaningModes")
         /\ HasWord(ProgramKey(events[i].data), "Beverage")
         /\ result.call = "get_daily_usage"
            => Day(events[i].timestamp) \in DOMAIN result.rows

\* the classification as stated, applied to every identifier a stored
\* program_started event has
StatedBrews ==
    {i \in ProgramStarts : StatedBrew(ProgramKey(events[i].data))}

\* the counts of the identifiers of the events S
CountsOf(S) ==
    [program_key \in {ProgramKey(events[i].data) : i \in S} |->
        Cardinality({i \in S : ProgramKey(events[i].data) = program_key})]

\* C29 as stated: get_program_counts returns, for every identifier the
\* stated classification takes for a brew program, the number of stored
\* program_started events with it, and no other entry.
C29_CountsAsStated ==
    result.call = "get_program_counts" => result.rows = CountsOf(StatedBrews)

\* C29: get_program_counts returns, for every identifier that is not empty
\* and that the stated classification takes for a brew program, the number
\* of stored program_started events with it, and no other entry.
C29_CountsOfNonEmpty ==
    result.call = "get_program_counts" => result.rows = CountsOf(Brews)

\* a call returned the count of a brew program while an event with the
\* empty identifier is stored
C29_Witness ==
    /\ result.call = "get_program_counts"
    /\ \E program_key \in DOMAIN result.rows : result.rows[program_key] > 0
    /\ \E i \in ProgramStarts : ProgramKey(events[i].data) = <<>>

\* a call of get_history, get_daily_usage or get_program_counts returns
Returned == result = NoResult /\ result' # NoResult

\* C33: the events table is append-only: every step of the store and of
\* the pipeline leaves the stored rows as they are, in place, and at most
\* appends rows after them, so the number of rows never decreases; and
\* get_history, get_daily_usage and get_program_counts leave the table
\* unchanged.
C33_AppendOnly ==
    /\ [][/\ Len(events') >= Len(events)
          /\ SubSeq(events', 1, Len(events)) = events]_vars
    /\ [][Returned => events' = events]_vars

\* each of the three queries can be called on a table that holds two rows
\* of one type, and one of them has returned its rows
C33_Witness ==
    /\ Len(events) = 2
    /\ events[1].type = events[2].type
    /\ result.call \in {"get_history", "get_daily_usage",
                         "get_program_counts"}
    /\ Len(result.rows) > 0 \/ DOMAIN result.rows # {}

(***************************************************************************)
(* HistoryManager.__init__: the import of the legacy history.json          *)
(*                                                                         *)
(* Every initializer builds a HistoryManager on the same paths, in a       *)
(* thread or a process of its own; self._lock belongs to the instance, so  *)
(* the steps of two initializers interleave. The legacy file is never      *)
(* written, so that what json.load returns is LegacyEvents as long as the  *)
(* file exists. A legacy event is stored with its number as data, an event *)
(* added later with data 0.                                                *)
(***************************************************************************)
\* HistoryManager(history_path): _ensure_database, then
\* `if not self.json_path.exists(): return`
M_Init(p) ==
    /\ hm[p] \in {NoInit, Built}
    /\ hm' = [hm EXCEPT ![p] = IF json_file THEN "count" ELSE Built]
    /\ UNCHANGED <<events, result, json_file, backup_file, ad>>
    /\ UNCHANGED <<streamVars, pipeVars, tokenVars>>

\* SELECT COUNT(*) FROM events, read outside a transaction
M_Count(p) ==
    /\ hm[p] = "count"
    /\ hm' = [hm EXCEPT ![p] = IF Len(events) > 0 THEN Built ELSE "load"]
    /\ UNCHANGED <<events, result, json_file, backup_file, ad>>
    /\ UNCHANGED <<streamVars, pipeVars, tokenVars>>

\* json.load of the legacy file: the file is gone, or it is empty, or its
\* events are to be imported
M_Load(p) ==
    /\ hm[p] = "load"
    /\ hm' = [hm EXCEPT ![p] =
                IF json_file /\ LegacyEvents # <<>> THEN "insert" ELSE Built]
    /\ UNCHANGED <<events, result, json_file, backup_file, ad>>
    /\ UNCHANGED <<streamVars, pipeVars, tokenVars>>

\* the INSERTs of the loaded events and the commit; or every INSERT raises,
\* which is printed, and nothing is imported
M_Insert(p) ==
    /\ hm[p] = "insert"
    /\ Len(events) + Len(LegacyEvents) <= MaxMigrated
    /\ \E ok \in BOOLEAN :
         IF ok
         THEN /\ events' = events \o LegacyEvents
              /\ hm' = [hm EXCEPT ![p] = "rename"]
         ELSE /\ hm' = [hm EXCEPT ![p] = Built]
              /\ UNCHANGED events
    /\ result' = NoResult
    /\ UNCHANGED <<json_file, backup_file, ad>>
    /\ UNCHANGED <<streamVars, pipeVars, tokenVars>>

\* imported > 0: self.json_path.rename(backup_path), whose exception is
\* printed when the file is gone
M_Rename(p) ==
    /\ hm[p] = "rename"
    /\ IF json_file
       THEN /\ backup_file' = TRUE
            /\ json_file' = FALSE
       ELSE UNCHANGED <<json_file, backup_file>>
    /\ hm' = [hm EXCEPT ![p] = Built]
    /\ UNCHANGED <<events, result, ad>>
    /\ UNCHANGED <<streamVars, pipeVars, tokenVars>>

\* add_event by a manager that was built
M_AddEvent ==
    /\ \E p \in Initializers : hm[p] = Built
    /\ Len(events) < MaxMigrated
    /\ events' = AddEvent(events, "status", 0, MaxLegacy + 1)
    /\ result' = NoResult
    /\ UNCHANGED <<json_file, backup_file, hm, ad>>
    /\ UNCHANGED <<streamVars, pipeVars, tokenVars>>

MigrateNext ==
    \/ \E p \in Initializers : M_Init(p)
    \/ \E p \in Initializers : M_Count(p)
    \/ \E p \in Initializers : M_Load(p)
    \/ \E p \in Initializers : M_Insert(p)
    \/ \E p \in Initializers : M_Rename(p)
    \/ M_AddEvent

MigrateSpec == Init /\ [][MigrateNext]_vars

(***************************************************************************)
(* Claims about the import of the legacy file                              *)
(***************************************************************************)
\* the rows of the table that hold legacy event k
StoredCopies(k) == {i \in 1..Len(events) : events[i].data = k}

\* C30: the legacy events are imported only into an empty table, every
\* legacy event is in the table at most once, whatever the number of
\* initializations, one after another or at the same time, and once an
\* import is over the legacy file is gone and the backup holds it.
C30_LegacyImportedOnce ==
    /\ [](\A k \in 1..MaxLegacy : Cardinality(StoredCopies(k)) <= 1)
    /\ []((/\ \E k \in 1..MaxLegacy : StoredCopies(k) # {}
           /\ \A p \in Initializers : hm[p] \in {NoInit, Built})
          => ~json_file /\ backup_file)
    /\ [][(\E p \in Initializers : hm[p] = "insert" /\ hm'[p] = "rename")
            => events = <<>>]_vars

(***************************************************************************)
(* HistoryManager.add_event called by several threads on one store         *)
(*                                                                         *)
(* Every adder thread calls add_event on the same HistoryManager, whose    *)
(* self._lock it holds from sqlite3.connect to conn.close(). A row is      *)
(* stored with the number of its thread as data.                           *)
(***************************************************************************)
\* nobody is inside `with self._lock`
StoreLockFree == \A a \in Adders : ad[a].pc # "locked"

\* add_event(event_type, data): the timestamp, json.dumps(data)
A_Begin(a) ==
    /\ ad[a].pc = "idle"
    /\ ad[a].ok < MaxAdds
    /\ ad' = [ad EXCEPT ![a].pc = "wait"]
    /\ UNCHANGED <<events, result, migVars>>
    /\ UNCHANGED <<streamVars, pipeVars, tokenVars>>

\* with self._lock:
A_Lock(a) ==
    /\ ad[a].pc = "wait"
    /\ StoreLockFree
    /\ ad' = [ad EXCEPT ![a].pc = "locked"]
    /\ UNCHANGED <<events, result, migVars>>
    /\ UNCHANGED <<streamVars, pipeVars, tokenVars>>

\* an INSERT whose commit is counted and does not reach the table when
\* another thread waits for the lock
A_InsertLosesRow(a) ==
    /\ ad[a].pc = "locked"
    /\ \E ok \in BOOLEAN :
         IF ok
         THEN /\ events' = IF \E b \in Adders : ad[b].pc = "wait"
                           THEN events
                           ELSE AddEvent(events, "event", a, now)
              /\ ad' = [ad EXCEPT ![a] = [pc |-> "idle", ok |-> @.ok + 1]]
         ELSE /\ ad' = [ad EXCEPT ![a].pc = "idle"]
              /\ UNCHANGED events
    /\ result' = NoResult
    /\ UNCHANGED migVars
    /\ UNCHANGED <<streamVars, pipeVars, tokenVars>>

\* connect, INSERT, commit, close and the end of the with block; or one of
\* them raises, the lock is released all the same and the exception is
\* printed by add_event
A_Insert(a) ==
    /\ ad[a].pc = "locked"
    /\ \E ok \in BOOLEAN :
         IF ok
         THEN /\ events' = AddEvent(events, "event", a, now)
              /\ ad' = [ad EXCEPT ![a] = [pc |-> "idle", ok |-> @.ok + 1]]
         ELSE /\ ad' = [ad EXCEPT ![a].pc = "idle"]
              /\ UNCHANGED events
    /\ result' = NoResult
    /\ UNCHANGED migVars
    /\ UNCHANGED <<streamVars, pipeVars, tokenVars>>

AddNext ==
    \/ \E a \in Adders : A_Begin(a)
    \/ \E a \in Adders : A_Lock(a)
    \/ \E a \in Adders : A_Insert(a)
    \/ H_GetAll
    \/ H_Taken

AddSpec == Init /\ [][AddNext]_vars

(***************************************************************************)
(* EventStreamManager: what the stream reader does with a decoded frame    *)
(***************************************************************************)
FrameTypes == {"STATUS", "EVENT", "NOTIFY", "CONNECTED"}

ActiveProgram == "BSH.Common.Root.ActiveProgram"

\* an element of payload["items"] that is no JSON object: item.get raises
NotAnObject == [key |-> "", value |-> "no get"]

\* an item of payload["items"]: its key and the kind of its value
Items == [key : {ActiveProgram}, value : {"null", "dict", "str", "number"}]
         \cup [key : {"other"}, value : {"dict"}]
         \cup {NotAnObject}

ItemSeqs == UNION {[1..n -> Items] : n \in 0..MaxItems}

\* the items are read of EVENT and NOTIFY frames only
Frames == [type : {"EVENT", "NOTIFY"}, items : ItemSeqs]
          \cup [type : FrameTypes \ {"EVENT", "NOTIFY"}, items : {<<>>}]

\* the frames read where the payloads do not matter
PlainFrames ==
    {f \in Frames : /\ f.type # "NOTIFY"
                    /\ \A k \in 1..Len(f.items) :
                         f.items[k] = [key |-> ActiveProgram, value |-> "str"]}

\* an event type that keeps its case
LowerKeepsCase(t) == t

\* event_type.lower()
Lower(t) ==
    CASE t = "STATUS" -> "status"
      [] t = "EVENT" -> "event"
      [] t = "NOTIFY" -> "notify"
      [] t = "CONNECTED" -> "connected"

\* payload = json.loads(event.data): an object with the items
Payload(f) == [items |-> f.items]

\* the program_started records of the items, in item order: a record for an
\* ActiveProgram item whose value is a dict (program and options are read of
\* it) or a string (the value is the program, the options are empty); an
\* item without get raises, `except Exception` ends the puts of the frame
RECURSIVE ProgramRecords(_)
ProgramRecords(items) ==
    IF items = <<>> \/ Head(items) = NotAnObject
    THEN <<>>
    ELSE (IF /\ Head(items).key = ActiveProgram
             /\ Head(items).value \in {"dict", "str"}
          THEN <<[type |-> "program_started",
                  data |-> [program |-> Head(items).value,
                            options |-> IF Head(items).value = "dict"
                                        THEN "of value" ELSE "empty"]]>>
          ELSE <<>>) \o ProgramRecords(Tail(items))

\* the (event_type, data) pairs one frame puts on the queue, in put order
Records(f) ==
    <<[type |-> Lower(f.type), data |-> Payload(f)]>> \o
    (CASE f.type = "STATUS" ->
            <<[type |-> "status_changed",
               data |-> [event |-> f.type, payload |-> Payload(f)]]>>
       [] f.type \in {"EVENT", "NOTIFY"} -> ProgramRecords(f.items)
       [] OTHER -> <<>>)

\* the types of the records one frame puts on the queue, in put order
RecordTypes(f) == [k \in 1..Len(Records(f)) |-> Records(f)[k].type]

\* a put at the wrong end of the queue
QueuePutFront(q, r) == <<r>> \o q

\* self._history_queue.put_nowait(r)
QueuePut(q, r) == Append(q, r)

\* the put_nowait calls of one frame, the fr-th decoded; n records were put
\* before
RECURSIVE PutAll(_, _, _, _)
PutAll(q, recs, n, fr) ==
    IF recs = <<>>
    THEN q
    ELSE PutAll(QueuePut(q, [id |-> n + 1, frame |-> fr,
                             type |-> Head(recs).type,
                             data |-> Head(recs).data]),
                Tail(recs), n + 1, fr)

\* the reader waits for the next frame of its connection: neither the stop
\* flag nor force_reconnect makes it leave the for loop
Handling ==
    /\ r_pc = "wait"
    /\ ~stop_event
    /\ ~force_reconnect

\* everything of the stream state but the heartbeat
HeartbeatOnly ==
    UNCHANGED <<stream_running, stop_event, force_reconnect, now, wpc,
                backoff_seconds, consecutive_429_errors, mon_pc,
                stream_connected, stream_status, history_worker_alive,
                streak_429>>

\* a KEEP-ALIVE frame that is treated as a frame with a payload
R_KeepAliveDecoded ==
    /\ Handling
    /\ last_heartbeat' = now
    /\ history_queue' = QueuePut(history_queue,
                                 [id |-> enqueued + 1, frame |-> r_frame.n,
                                  type |-> "keep-alive",
                                  data |-> [items |-> <<>>]])
    /\ enqueued' = enqueued + 1
    /\ enqueued < MaxRecords
    /\ HeartbeatOnly
    /\ UNCHANGED <<hw_item, clients, clients_lock, bc, add_calls, r_pc,
                   r_frame, reader_bcast>>
    /\ UNCHANGED handler
    /\ UNCHANGED <<histVars, tokenVars>>

\* if event_type == "KEEP-ALIVE": self._update_heartbeat(); continue
R_KeepAlive ==
    /\ Handling
    /\ last_heartbeat' = now
    /\ HeartbeatOnly
    /\ UNCHANGED <<pipeVars, histVars, tokenVars>>

\* a skip that puts the undecoded frame on the queue
R_SkipPutsRaw ==
    /\ Handling
    /\ enqueued < MaxRecords
    /\ \E kind \in {"EMPTY", "MALFORMED"} :
         history_queue' = QueuePut(history_queue,
                                   [id |-> enqueued + 1, frame |-> r_frame.n,
                                    type |-> kind,
                                    data |-> [items |-> <<>>]])
    /\ enqueued' = enqueued + 1
    /\ UNCHANGED <<hw_item, clients, clients_lock, bc, add_calls, r_pc,
                   r_frame, reader_bcast>>
    /\ UNCHANGED handler
    /\ UNCHANGED <<streamVars, histVars, tokenVars>>

\* `if not event.data: continue`, and json.loads raising JSONDecodeError,
\* which is passed over: the frame leaves no trace
R_Skip ==
    /\ Handling
    /\ \E kind \in {"EMPTY", "MALFORMED"} :
         UNCHANGED vars

\* a frame f with data that decodes: the heartbeat, the puts; the broadcast
\* comes next
R_Frame(f) ==
    /\ Handling
    /\ r_frame.n < MaxFrames
    /\ enqueued + Len(Records(f)) <= MaxRecords
    /\ history_queue' = PutAll(history_queue, Records(f), enqueued,
                               r_frame.n + 1)
    /\ enqueued' = enqueued + Len(Records(f))
    /\ r_frame' = [n |-> r_frame.n + 1, type |-> f.type,
                   payload |-> Payload(f)]
    /\ last_heartbeat' = now
    /\ r_pc' = "bcast"
    /\ HeartbeatOnly
    /\ UNCHANGED <<hw_item, clients, clients_lock, bc, add_calls,
                   reader_bcast>>
    /\ UNCHANGED handler
    /\ UNCHANGED <<histVars, tokenVars>>

(***************************************************************************)
(* _history_worker                                                         *)
(***************************************************************************)
\* event_type, data = self._history_queue.get(timeout=1)
HW_Get ==
    /\ hw_item = <<>>
    /\ history_queue # <<>>
    /\ hw_item' = <<Head(history_queue)>>
    /\ history_queue' = Tail(history_queue)
    /\ UNCHANGED <<clients, clients_lock, bc, r_pc, r_frame,
                   reader_bcast,
                   enqueued, add_calls>>
    /\ UNCHANGED handler
    /\ UNCHANGED <<streamVars, histVars, tokenVars>>

\* a worker that keeps the record when add_event failed
HW_AddRetries ==
    /\ hw_item # <<>>
    /\ \E ok \in BOOLEAN :
         /\ events' = IF ok
                      THEN AddEvent(events, hw_item[1].type, hw_item[1].id, now)
                      ELSE events
         /\ hw_item' = IF ok THEN <<>> ELSE hw_item
    /\ add_calls' = Append(add_calls, hw_item[1].id)
    /\ result' = NoResult
    /\ UNCHANGED <<history_queue, clients, clients_lock, bc, r_pc, r_frame,
                   reader_bcast,
                   enqueued>>
    /\ UNCHANGED handler
    /\ UNCHANGED <<migVars, ad, streamVars, tokenVars>>

\* self.history_manager.add_event(event_type, data), which stores the record
\* with the current time or fails; task_done()
HW_Add ==
    /\ hw_item # <<>>
    /\ \E ok \in BOOLEAN :
         events' = IF ok
                   THEN AddEvent(events, hw_item[1].type, hw_item[1].id, now)
                   ELSE events
    /\ hw_item' = <<>>
    /\ add_calls' = Append(add_calls, hw_item[1].id)
    /\ result' = NoResult
    /\ UNCHANGED <<history_queue, clients, clients_lock, bc, r_pc, r_frame,
                   reader_bcast,
                   enqueued>>
    /\ UNCHANGED handler
    /\ UNCHANGED <<migVars, ad, streamVars, tokenVars>>

(***************************************************************************)
(* add_client, remove_client, broadcast_event                              *)
(***************************************************************************)
Range(seq) == {seq[k] : k \in 1..Len(seq)}

\* seq without the elements of the set S
RECURSIVE Without(_, _)
Without(seq, S) ==
    IF seq = <<>>
    THEN <<>>
    ELSE (IF Head(seq) \in S THEN <<>> ELSE <<Head(seq)>>)
         \o Without(Tail(seq), S)

\* list.remove(c): the first element equal to c goes
RECURSIVE RemoveFirst(_, _)
RemoveFirst(seq, c) ==
    IF seq = <<>> THEN <<>>
    ELSE IF Head(seq) = c THEN Tail(seq)
    ELSE <<Head(seq)>> \o RemoveFirst(Tail(seq), c)

\* an add_client that does not look whether the client is registered
AddClientAlways(c) ==
    /\ clients_lock = "free"
    /\ clients' = Append(clients, c)
    /\ UNCHANGED <<history_queue, hw_item, clients_lock, bc, r_pc, r_frame,
                   reader_bcast,
                   enqueued, add_calls>>
    /\ UNCHANGED handler
    /\ UNCHANGED <<streamVars, histVars, tokenVars>>

\* add_client(c): with self._clients_lock: if client not in self._clients:
\* self._clients.append(client)
AddClient(c) ==
    /\ clients_lock = "free"
    /\ clients' = IF c \notin Range(clients) THEN Append(clients, c)
                  ELSE clients
    /\ UNCHANGED <<history_queue, hw_item, clients_lock, bc, r_pc, r_frame,
                   reader_bcast,
                   enqueued, add_calls>>
    /\ UNCHANGED handler
    /\ UNCHANGED <<streamVars, histVars, tokenVars>>

\* remove_client(c): with self._clients_lock: if client in self._clients:
\* self._clients.remove(client)
RemoveClient(c) ==
    /\ clients_lock = "free"
    /\ clients' = IF c \in Range(clients) THEN RemoveFirst(clients, c)
                  ELSE clients
    /\ UNCHANGED <<history_queue, hw_item, clients_lock, bc, r_pc, r_frame,
                   reader_bcast,
                   enqueued, add_calls>>
    /\ UNCHANGED handler
    /\ UNCHANGED <<streamVars, histVars, tokenVars>>

Broadcasters == {"reader", "monitor"}

\* the payload of the monitor's STREAM_STATUS
StatusPayload == [items |-> <<>>]

\* a broadcast_event that goes on to the fan-out with an empty registry
BC_BeginNoEarlyReturn(caller) ==
    /\ clients_lock = "free"
    /\ caller = "reader" => r_pc = "bcast"
    /\ bc' = [active |-> TRUE, done |-> FALSE,
              event_type |-> IF caller = "reader"
                             THEN r_frame.type ELSE "STREAM_STATUS",
              payload |-> IF caller = "reader"
                          THEN r_frame.payload ELSE StatusPayload,
              idx |-> 1, registered |-> clients, attempts |-> <<>>,
              succeeded |-> {}, disconnected |-> <<>>]
    /\ clients_lock' = caller
    /\ reader_bcast' = IF caller = "reader"
                       THEN reader_bcast + 1 ELSE reader_bcast
    /\ UNCHANGED <<history_queue, hw_item, clients, r_pc, r_frame,
                   enqueued, add_calls>>
    /\ UNCHANGED handler
    /\ UNCHANGED <<streamVars, histVars, tokenVars>>

\* a broadcast_event that passes an empty payload of its own
BC_BeginOwnPayload(caller) ==
    /\ clients_lock = "free"
    /\ caller = "reader" => r_pc = "bcast"
    /\ bc' = [active |-> TRUE, done |-> clients = <<>>,
              event_type |-> IF caller = "reader"
                             THEN r_frame.type ELSE "STREAM_STATUS",
              payload |-> IF caller = "reader"
                          THEN StatusPayload ELSE StatusPayload,
              idx |-> 1, registered |-> clients, attempts |-> <<>>,
              succeeded |-> {}, disconnected |-> <<>>]
    /\ clients_lock' = caller
    /\ reader_bcast' = IF caller = "reader"
                       THEN reader_bcast + 1 ELSE reader_bcast
    /\ UNCHANGED <<history_queue, hw_item, clients, r_pc, r_frame,
                   enqueued, add_calls>>
    /\ UNCHANGED handler
    /\ UNCHANGED <<streamVars, histVars, tokenVars>>

\* broadcast_event(event_type, payload): with self._clients_lock; with an
\* empty registry the call returns from there
BC_Begin(caller) ==
    /\ clients_lock = "free"
    /\ caller = "reader" => r_pc = "bcast"
    /\ bc' = [active |-> TRUE, done |-> clients = <<>>,
              event_type |-> IF caller = "reader"
                             THEN r_frame.type ELSE "STREAM_STATUS",
              payload |-> IF caller = "reader"
                          THEN r_frame.payload ELSE StatusPayload,
              idx |-> 1, registered |-> clients, attempts |-> <<>>,
              succeeded |-> {}, disconnected |-> <<>>]
    /\ clients_lock' = caller
    /\ reader_bcast' = IF caller = "reader"
                       THEN reader_bcast + 1 ELSE reader_bcast
    /\ UNCHANGED <<history_queue, hw_item, clients, r_pc, r_frame,
                   enqueued, add_calls>>
    /\ UNCHANGED handler
    /\ UNCHANGED <<streamVars, histVars, tokenVars>>

\* a fan-out that forgets the clients whose write raised
CollectNothing(disconnected, c, ok) == disconnected

\* the two except branches of the fan-out loop
Collect(disconnected, c, ok) ==
    IF ok THEN disconnected ELSE Append(disconnected, c)

\* one pass of the fan-out loop: _send_sse_event to the next client; after
\* the last client, the removal loop
BC_Write ==
    /\ bc.active /\ ~bc.done
    /\ \E ok \in BOOLEAN :
         LET c == clients[bc.idx]
             last == bc.idx = Len(clients)
             d == Collect(bc.disconnected, c, ok)
         IN  /\ bc' = [bc EXCEPT !.done = last,
                                 !.idx = @ + 1,
                                 !.attempts = Append(@, c),
                                 !.succeeded = IF ok THEN @ \cup {c} ELSE @,
                                 !.disconnected = d]
             /\ clients' = IF last THEN Without(clients, Range(d)) ELSE clients
    /\ UNCHANGED <<history_queue, hw_item, clients_lock, r_pc, r_frame,
                   reader_bcast,
                   enqueued, add_calls>>
    /\ UNCHANGED handler
    /\ UNCHANGED <<streamVars, histVars, tokenVars>>

\* the end of the with block: the lock is released and the call returns
BC_Return ==
    /\ bc.active /\ bc.done
    /\ bc' = NoBroadcast
    /\ clients_lock' = "free"
    /\ r_pc' = IF clients_lock = "reader" THEN "wait" ELSE r_pc
    /\ r_frame' = IF clients_lock = "reader"
                  THEN [NoFrame EXCEPT !.n = r_frame.n] ELSE r_frame
    /\ UNCHANGED <<history_queue, hw_item, clients, reader_bcast,
                   enqueued, add_calls>>
    /\ UNCHANGED handler
    /\ UNCHANGED <<streamVars, histVars, tokenVars>>

\* persistence: the reader's puts, the history worker, the table, a reader
\* of the history; no SSE client is connected
PersistNext ==
    \/ \E f \in PlainFrames : R_Frame(f)
    \/ BC_Begin("reader")
    \/ BC_Return
    \/ HW_Get
    \/ HW_Add
    \/ H_GetAll
    \/ H_Taken
    \/ Tick

PersistSpec == Init /\ [][PersistNext]_vars

\* live broadcast: the registry, the reader's and the monitor's broadcasts
BroadcastNext ==
    \/ \E f \in PlainFrames : R_Frame(f)
    \/ \E c \in ClientIds : AddClient(c)
    \/ \E c \in ClientIds : RemoveClient(c)
    \/ \E caller \in Broadcasters : BC_Begin(caller)
    \/ BC_Write
    \/ BC_Return

BroadcastSpec == Init /\ [][BroadcastNext]_vars

\* the reader on one connection: frames of every kind, the puts, the
\* broadcast; no SSE client is connected and the queue is not drained
ReaderNext ==
    \/ \E f \in Frames : R_Frame(f)
    \/ R_KeepAlive
    \/ R_Skip
    \/ BC_Begin("reader")
    \/ BC_Return

ReaderSpec == Init /\ [][ReaderNext]_vars

(***************************************************************************)
(* DashboardHandler.handle_events_stream: the thread of one /events        *)
(* request, which is the client the registry holds                         *)
(***************************************************************************)
\* the SSE headers are sent; event_stream_manager.add_client(router)
H_Subscribe(c) ==
    /\ handler[c] = "none"
    /\ clients_lock = "free"
    /\ clients' = IF c \notin Range(clients) THEN Append(clients, c)
                  ELSE clients
    /\ handler' = [handler EXCEPT ![c] = "subscribed"]
    /\ UNCHANGED <<history_queue, hw_item, clients_lock, bc, r_pc, r_frame,
                   reader_bcast, enqueued, add_calls>>
    /\ UNCHANGED <<streamVars, histVars, tokenVars>>

\* _send_sse_event(router, "connected", ...) after the subscription, or
\* _send_sse_event(router, "ping", ...) after time.sleep(30): the thread is
\* in router.wfile.write, outside any lock
H_WriteBegin(c) ==
    /\ handler[c] \in {"subscribed", "sleep"}
    /\ handler' = [handler EXCEPT ![c] = "writing"]
    /\ UNCHANGED <<history_queue, hw_item, clients, clients_lock, bc, r_pc,
                   r_frame, reader_bcast, enqueued, add_calls>>
    /\ UNCHANGED <<streamVars, histVars, tokenVars>>

WriteResults == {"ok", "os_error", "other_exception"}

\* a handler that ends where its write raises something else than OSError
H_WriteEndNoFinally(c) ==
    /\ handler[c] = "writing"
    /\ \E r \in WriteResults :
         handler' = [handler EXCEPT ![c] =
                        CASE r = "ok" -> "sleep"
                          [] r = "os_error" -> "closing"
                          [] OTHER -> "none"]
    /\ UNCHANGED <<history_queue, hw_item, clients, clients_lock, bc, r_pc,
                   r_frame, reader_bcast, enqueued, add_calls>>
    /\ UNCHANGED <<streamVars, histVars, tokenVars>>

\* the write returns and the thread sleeps, or it raises: an OSError (the
\* client has closed the connection) is passed over, any other exception
\* propagates, and both go through the finally clause
H_WriteEnd(c) ==
    /\ handler[c] = "writing"
    /\ \E r \in WriteResults :
         handler' = [handler EXCEPT ![c] =
                        IF r = "ok" THEN "sleep" ELSE "closing"]
    /\ UNCHANGED <<history_queue, hw_item, clients, clients_lock, bc, r_pc,
                   r_frame, reader_bcast, enqueued, add_calls>>
    /\ UNCHANGED <<streamVars, histVars, tokenVars>>

\* finally: event_stream_manager.remove_client(router); the handler ends
H_Close(c) ==
    /\ handler[c] = "closing"
    /\ clients_lock = "free"
    /\ clients' = IF c \in Range(clients) THEN RemoveFirst(clients, c)
                  ELSE clients
    /\ handler' = [handler EXCEPT ![c] = "none"]
    /\ UNCHANGED <<history_queue, hw_item, clients_lock, bc, r_pc, r_frame,
                   reader_bcast, enqueued, add_calls>>
    /\ UNCHANGED <<streamVars, histVars, tokenVars>>

\* the /events handlers and the monitor's status broadcasts
DashNext ==
    \/ \E c \in ClientIds : H_Subscribe(c)
    \/ \E c \in ClientIds : H_WriteBegin(c)
    \/ \E c \in ClientIds : H_WriteEnd(c)
    \/ \E c \in ClientIds : H_Close(c)
    \/ BC_Begin("monitor")
    \/ BC_Write
    \/ BC_Return

DashSpec == Init /\ [][DashNext]_vars

(***************************************************************************)
(* _event_stream_worker and _heartbeat_monitor together: the frames of a   *)
(* connection the monitor asks the reader to leave                         *)
(***************************************************************************)
\* the only reader thread takes frame f from its connection with neither the
\* stop flag nor _force_reconnect set and handles it
D_Frame(w, f) ==
    /\ wpc[w] = "streaming" /\ Alone(w)
    /\ R_Frame(f)

\* the reader takes frame f from its connection and finds _force_reconnect
\* set: self._force_reconnect = False, before event.event and event.data
\* are looked at
D_Break(w, f) ==
    /\ wpc[w] = "streaming" /\ Alone(w)
    /\ r_pc = "wait"
    /\ ~stop_event
    /\ force_reconnect
    /\ force_reconnect' = FALSE
    /\ r_pc' = "break"
    /\ UNCHANGED <<stream_running, stop_event, last_heartbeat, now, wpc,
                   backoff_seconds, consecutive_429_errors, mon_pc,
                   stream_connected, stream_status, history_worker_alive,
                   streak_429>>
    /\ UNCHANGED <<history_queue, hw_item, clients, clients_lock, bc,
                   r_frame, reader_bcast, enqueued, add_calls, handler>>
    /\ UNCHANGED <<histVars, tokenVars>>

\* break: the for loop is left with the frame it was entered for
D_Left(w) ==
    /\ wpc[w] = "streaming"
    /\ r_pc = "break"
    /\ r_pc' = "wait"
    /\ Goto(w, "after_loop")
    /\ UNCHANGED <<stream_running, stop_event, force_reconnect,
                   last_heartbeat, now, backoff_seconds,
                   consecutive_429_errors, mon_pc, stream_connected,
                   stream_status, history_worker_alive, streak_429>>
    /\ UNCHANGED <<history_queue, hw_item, clients, clients_lock, bc,
                   r_frame, reader_bcast, enqueued, add_calls, handler>>
    /\ UNCHANGED <<histVars, tokenVars>>

\* the upstream closes the stream while the reader waits for a frame
D_StreamClosed(w) ==
    /\ r_pc = "wait"
    /\ W_StreamClosed(w)

\* one reader thread, its connections and their frames, the monitor's ticks
ForcedNext ==
    \/ Start
    \/ \E w \in Workers : W_LoopTest(w)
    \/ \E w \in Workers : W_Connect(w)
    \/ \E w \in Workers : W_WakeRetry(w)
    \/ \E w \in Workers : W_Wake429(w)
    \/ \E w \in Workers : W_AfterLoop(w)
    \/ \E w \in Workers : W_Reset(w)
    \/ \E w \in Workers : W_Exit(w)
    \/ \E w \in Workers : D_StreamClosed(w)
    \/ \E w \in Workers, f \in PlainFrames : D_Frame(w, f)
    \/ \E w \in Workers, f \in PlainFrames : D_Break(w, f)
    \/ \E w \in Workers : D_Left(w)
    \/ BC_Begin("reader")
    \/ BC_Return
    \/ M_Step
    \/ Tick

ForcedSpec == Init /\ [][ForcedNext]_vars

(***************************************************************************)
(* Claims about the frames of a connection the reader is asked to leave    *)
(***************************************************************************)
\* C36: whenever the reader, with the stop flag not set, takes a frame with
\* a decodable payload from its connection, the frame's records are put on
\* the queue and the reader goes on to broadcast it, also when it finds a
\* forced reconnect pending on that frame
C36_TakenFrameEnqueuedAndBroadcast ==
    [][(~stop_event /\ r_pc = "wait" /\ r_pc' # "wait")
         => /\ r_pc' = "bcast"
            /\ r_frame'.n = r_frame.n + 1
            /\ enqueued' > enqueued
            /\ \E k \in 1..Len(history_queue') :
                 history_queue'[k].frame = r_frame'.n]_vars

(***************************************************************************)
(* Claims about the /events handler and the registry                       *)
(***************************************************************************)
\* C35: a client is in the registry only while its /events handler runs: the
\* subscribing step registers it, and every step that ends the handler,
\* whatever its write raised, leaves it unregistered
C35_RegisteredOnlyWhileHandlerRuns ==
    /\ [](\A c \in ClientIds : c \in Range(clients) => handler[c] # "none")
    /\ [][\A c \in ClientIds :
            /\ (handler[c] = "none" /\ handler'[c] # "none")
                 => c \in Range(clients')
            /\ (handler[c] # "none" /\ handler'[c] = "none")
                 => c \notin Range(clients')]_vars

\* one handler is about to end with its client still registered, while a
\* broadcast has already removed the client of a handler that still runs
C35_Witness ==
    \E c, d \in ClientIds :
        /\ handler[c] = "closing" /\ c \in Range(clients)
        /\ ENABLED H_Close(c)
        /\ handler[d] = "sleep" /\ d \notin Range(clients)

\* C39: a broadcast never writes to a client whose own handler is inside a
\* write to the same connection
C39_BroadcastWriteNotDuringHandlerWrite ==
    [][\A c \in ClientIds :
         (bc.active /\ ~bc.done /\ bc'.idx = bc.idx + 1
            /\ clients[bc.idx] = c) => handler[c] # "writing"]_vars

(***************************************************************************)
(* HomeConnectClient: every caller builds its own client, which loads the  *)
(* token file into self.tokens, and calls get_access_token                 *)
(***************************************************************************)
\* TokenBundle.is_expired
IsExpired(t) == now >= t.expires_at

\* what the token endpoint may answer: expires_in (absent counts as 0) and
\* whether the answer carries a refresh token
RefreshResponses == [expires_in : {0, TimeStep}, refresh_token : BOOLEAN]

\* TokenBundle.from_response; n refresh calls were made before
FromResponse(resp, n) ==
    [gen |-> n + 2, expires_at |-> now + resp.expires_in,
     refresh_token |-> resp.refresh_token]

\* HomeConnectClient(config)
T_Construct(c) ==
    /\ tpc[c] = "start"
    /\ tokens' = [tokens EXCEPT ![c] = token_file]
    /\ tpc' = [tpc EXCEPT ![c] = "ensure"]
    /\ UNCHANGED <<token_file, refresh_lock, seen_expired, refresh_calls,
                   refresh_failed, rq>>
    /\ UNCHANGED <<streamVars, pipeVars, histVars>>

\* _ensure_token up to the lock: no refresh token, or the token still valid
T_Check(c) ==
    /\ tpc[c] = "ensure"
    /\ IF ~tokens[c].refresh_token \/ ~IsExpired(tokens[c])
       THEN /\ tpc' = [tpc EXCEPT ![c] = "done"]
            /\ UNCHANGED seen_expired
       ELSE /\ tpc' = [tpc EXCEPT ![c] = "wait"]
            /\ seen_expired' = [seen_expired EXCEPT ![c] = tokens[c].gen]
    /\ UNCHANGED <<token_file, tokens, refresh_lock, refresh_calls,
                   refresh_failed, rq>>
    /\ UNCHANGED <<streamVars, pipeVars, histVars>>

\* with _token_refresh_lock:
T_Acquire(c) ==
    /\ tpc[c] = "wait"
    /\ refresh_lock = 0
    /\ refresh_lock' = c
    /\ tpc' = [tpc EXCEPT ![c] = "locked"]
    /\ UNCHANGED <<token_file, tokens, seen_expired, refresh_calls,
                   refresh_failed, rq>>
    /\ UNCHANGED <<streamVars, pipeVars, histVars>>

\* the with block up to the refresh call: the second look at self.tokens,
\* then the reload, after which the lock is released, or the refresh call
T_Critical(c) ==
    /\ tpc[c] = "locked"
    /\ IF ~IsExpired(tokens[c])
       THEN /\ tokens' = [tokens EXCEPT ![c] = token_file]
            /\ tpc' = [tpc EXCEPT ![c] = "done"]
            /\ refresh_lock' = 0
            /\ UNCHANGED refresh_calls
       ELSE /\ Len(refresh_calls) < MaxRefreshes
            /\ refresh_calls' = Append(refresh_calls, tokens[c].gen)
            /\ tpc' = [tpc EXCEPT ![c] = "calling"]
            /\ UNCHANGED <<tokens, refresh_lock>>
    /\ UNCHANGED <<token_file, seen_expired, refresh_failed, rq>>
    /\ UNCHANGED <<streamVars, pipeVars, histVars>>

\* after a failed refresh call the token of the file is adopted as it is
T_RefreshedAdoptsAny(c) ==
    /\ tpc[c] = "calling"
    /\ refresh_lock' = 0
    /\ \/ \E resp \in RefreshResponses :
            LET t == FromResponse(resp, Len(refresh_calls) - 1)
            IN  /\ tokens' = [tokens EXCEPT ![c] = t]
                /\ token_file' = t
                /\ tpc' = [tpc EXCEPT ![c] = "done"]
                /\ UNCHANGED refresh_failed
       \/ /\ refresh_failed' = TRUE
          /\ UNCHANGED token_file
          /\ tokens' = [tokens EXCEPT ![c] = token_file]
          /\ tpc' = [tpc EXCEPT ![c] = "done"]
    /\ UNCHANGED <<seen_expired, refresh_calls, rq>>
    /\ UNCHANGED <<streamVars, pipeVars, histVars>>

\* refresh_access_token answers or raises: the save, or the reload of the
\* token file in the except branch; the with block ends
T_Refreshed(c) ==
    /\ tpc[c] = "calling"
    /\ refresh_lock' = 0
    /\ \/ \E resp \in RefreshResponses :
            LET t == FromResponse(resp, Len(refresh_calls) - 1)
            IN  /\ tokens' = [tokens EXCEPT ![c] = t]
                /\ token_file' = t
                /\ tpc' = [tpc EXCEPT ![c] = "done"]
                /\ UNCHANGED refresh_failed
       \/ /\ refresh_failed' = TRUE
          /\ UNCHANGED token_file
          /\ IF ~IsExpired(token_file)
             THEN /\ tokens' = [tokens EXCEPT ![c] = token_file]
                  /\ tpc' = [tpc EXCEPT ![c] = "done"]
             ELSE /\ tpc' = [tpc EXCEPT ![c] = "raised"]
                  /\ UNCHANGED tokens
    /\ UNCHANGED <<seen_expired, refresh_calls, rq>>
    /\ UNCHANGED <<streamVars, pipeVars, histVars>>

\* the call returns or raises; the caller drops its client
T_Return(c) ==
    /\ tpc[c] \in {"done", "raised"}
    /\ tpc' = [tpc EXCEPT ![c] = "start"]
    /\ tokens' = [tokens EXCEPT ![c] = NoToken]
    /\ seen_expired' = [seen_expired EXCEPT ![c] = 0]
    /\ UNCHANGED <<token_file, refresh_lock, refresh_calls, refresh_failed,
                   rq>>
    /\ UNCHANGED <<streamVars, pipeVars, histVars>>

TokenNext ==
    \/ \E c \in Callers : T_Construct(c)
    \/ \E c \in Callers : T_Check(c)
    \/ \E c \in Callers : T_Acquire(c)
    \/ \E c \in Callers : T_Critical(c)
    \/ \E c \in Callers : T_Refreshed(c)
    \/ \E c \in Callers : T_Return(c)
    \/ Tick

TokenSpec == Init /\ [][TokenNext]_vars

(***************************************************************************)
(* HomeConnectClient._request: _headers, the HTTP request, and after a 401 *)
(* the forced refresh, _headers again and the retry.  Every caller passes  *)
(* retry_on_401 = True, its default.                                       *)
(***************************************************************************)
\* what session.request gives: a response that is ok, a 401, another
\* response that is not ok, or an exception
Answers == {"ok", "401", "error", "exception"}

\* how _request ends with response st in resp
Ends(st) == IF st = "ok" THEN "returned" ELSE "failed"

\* the caller builds its client and calls _request, which calls _headers
Q_Begin(c) ==
    /\ tpc[c] = "start"
    /\ rq[c].pc = "idle"
    /\ tokens' = [tokens EXCEPT ![c] = token_file]
    /\ tpc' = [tpc EXCEPT ![c] = "ensure"]
    /\ rq' = [rq EXCEPT ![c] = [NoRequest EXCEPT !.pc = "headers1"]]
    /\ UNCHANGED <<token_file, refresh_lock, seen_expired, refresh_calls,
                   refresh_failed>>
    /\ UNCHANGED <<streamVars, pipeVars, histVars>>

\* _ensure_token raised, or the first session.request; a 401 sets the retry
\* flag unless it is set
Q_Send(c) ==
    /\ rq[c].pc = "headers1"
    /\ tpc[c] \in {"done", "raised"}
    /\ tpc' = [tpc EXCEPT ![c] = "out"]
    /\ IF tpc[c] = "raised"
       THEN rq' = [rq EXCEPT ![c].pc = "failed"]
       ELSE \E st \in Answers :
                rq' = [rq EXCEPT
                    ![c].http = 1,
                    ![c].status = st,
                    ![c].retry_attempted =
                        IF st = "401" THEN TRUE ELSE @,
                    ![c].pc = IF st = "401" /\ ~rq[c].retry_attempted
                              THEN "force" ELSE Ends(st)]
    /\ UNCHANGED <<token_file, tokens, refresh_lock, seen_expired,
                   refresh_calls, refresh_failed>>
    /\ UNCHANGED <<streamVars, pipeVars, histVars>>

\* the forced refresh call is made without the lock
Q_ForceNoLock(c) ==
    /\ rq[c].pc = "force"
    /\ IF tokens[c].refresh_token
       THEN /\ Len(refresh_calls) < MaxRefreshes
            /\ refresh_calls' = Append(refresh_calls, tokens[c].gen)
            /\ rq' = [rq EXCEPT ![c].forced = @ + 1, ![c].pc = "forcing"]
            /\ UNCHANGED tpc
       ELSE /\ rq' = [rq EXCEPT ![c].pc = "headers2"]
            /\ tpc' = [tpc EXCEPT ![c] = "ensure"]
            /\ UNCHANGED refresh_calls
    /\ UNCHANGED <<token_file, tokens, refresh_lock, seen_expired,
                   refresh_failed>>
    /\ UNCHANGED <<streamVars, pipeVars, histVars>>

\* with _token_refresh_lock: the refresh call when self.tokens has a
\* refresh token, else nothing and _headers is called again
Q_Force(c) ==
    /\ rq[c].pc = "force"
    /\ refresh_lock = 0
    /\ IF tokens[c].refresh_token
       THEN /\ Len(refresh_calls) < MaxRefreshes
            /\ refresh_lock' = c
            /\ refresh_calls' = Append(refresh_calls, tokens[c].gen)
            /\ rq' = [rq EXCEPT ![c].forced = @ + 1, ![c].pc = "forcing"]
            /\ UNCHANGED tpc
       ELSE /\ rq' = [rq EXCEPT ![c].pc = "headers2"]
            /\ tpc' = [tpc EXCEPT ![c] = "ensure"]
            /\ UNCHANGED <<refresh_lock, refresh_calls>>
    /\ UNCHANGED <<token_file, tokens, seen_expired, refresh_failed>>
    /\ UNCHANGED <<streamVars, pipeVars, histVars>>

\* the forced refresh call answers, the token is saved, the with block
\* ends and _headers is called again; or the call raises, the with block
\* ends and the except branch clears the flag
Q_Forced(c) ==
    /\ rq[c].pc = "forcing"
    /\ refresh_lock' = 0
    /\ \/ \E resp \in RefreshResponses :
            LET t == FromResponse(resp, Len(refresh_calls) - 1)
            IN  /\ tokens' = [tokens EXCEPT ![c] = t]
                /\ token_file' = t
                /\ rq' = [rq EXCEPT ![c].pc = "headers2"]
                /\ tpc' = [tpc EXCEPT ![c] = "ensure"]
                /\ UNCHANGED refresh_failed
       \/ /\ refresh_failed' = TRUE
          /\ rq' = [rq EXCEPT ![c].retry_attempted = FALSE,
                              ![c].pc = "failed"]
          /\ UNCHANGED <<token_file, tokens, tpc>>
    /\ UNCHANGED <<seen_expired, refresh_calls>>
    /\ UNCHANGED <<streamVars, pipeVars, histVars>>

\* the retry leaves the flag set
Q_RetryKeepsFlag(c) ==
    /\ rq[c].pc = "headers2"
    /\ tpc[c] \in {"done", "raised"}
    /\ tpc' = [tpc EXCEPT ![c] = "out"]
    /\ IF tpc[c] = "raised"
       THEN rq' = [rq EXCEPT ![c].retry_attempted = FALSE,
                             ![c].pc = "failed"]
       ELSE \E st \in Answers :
                rq' = [rq EXCEPT
                    ![c].http = 2,
                    ![c].status = IF st = "exception" THEN @ ELSE st,
                    ![c].pc = Ends(st)]
    /\ UNCHANGED <<token_file, tokens, refresh_lock, seen_expired,
                   refresh_calls, refresh_failed>>
    /\ UNCHANGED <<streamVars, pipeVars, histVars>>

\* the second _headers call raised, which the except branch swallows, or
\* the retry: its response replaces resp, its exception is swallowed and
\* leaves the 401 in resp; the flag is cleared either way
Q_Retry(c) ==
    /\ rq[c].pc = "headers2"
    /\ tpc[c] \in {"done", "raised"}
    /\ tpc' = [tpc EXCEPT ![c] = "out"]
    /\ IF tpc[c] = "raised"
       THEN rq' = [rq EXCEPT ![c].retry_attempted = FALSE,
                             ![c].pc = "failed"]
       ELSE \E st \in Answers :
                rq' = [rq EXCEPT
                    ![c].http = 2,
                    ![c].status = IF st = "exception" THEN @ ELSE st,
                    ![c].retry_attempted = FALSE,
                    ![c].pc = Ends(st)]
    /\ UNCHANGED <<token_file, tokens, refresh_lock, seen_expired,
                   refresh_calls, refresh_failed>>
    /\ UNCHANGED <<streamVars, pipeVars, histVars>>

\* the caller's next _request call on the same client
Q_Next(c) ==
    /\ rq[c].pc \in {"returned", "failed"}
    /\ rq' = [rq EXCEPT ![c] =
                [NoRequest EXCEPT !.pc = "headers1",
                                  !.retry_attempted = rq[c].retry_attempted]]
    /\ tpc' = [tpc EXCEPT ![c] = "ensure"]
    /\ UNCHANGED <<token_file, tokens, refresh_lock, seen_expired,
                   refresh_calls, refresh_failed>>
    /\ UNCHANGED <<streamVars, pipeVars, histVars>>

\* the caller drops its client
Q_Drop(c) ==
    /\ rq[c].pc \in {"returned", "failed"}
    /\ rq' = [rq EXCEPT ![c] = NoRequest]
    /\ tpc' = [tpc EXCEPT ![c] = "start"]
    /\ tokens' = [tokens EXCEPT ![c] = NoToken]
    /\ seen_expired' = [seen_expired EXCEPT ![c] = 0]
    /\ UNCHANGED <<token_file, refresh_lock, refresh_calls, refresh_failed>>
    /\ UNCHANGED <<streamVars, pipeVars, histVars>>

RequestNext ==
    \/ \E c \in Requesters : Q_Begin(c)
    \/ \E c \in Requesters : T_Check(c)
    \/ \E c \in Requesters : T_Acquire(c)
    \/ \E c \in Requesters : T_Critical(c)
    \/ \E c \in Requesters : T_Refreshed(c)
    \/ \E c \in Requesters : Q_Send(c)
    \/ \E c \in Requesters : Q_Force(c)
    \/ \E c \in Requesters : Q_Forced(c)
    \/ \E c \in Requesters : Q_Retry(c)
    \/ \E c \in Requesters : Q_Next(c)
    \/ \E c \in Requesters : Q_Drop(c)
    \/ Tick

RequestSpec == Init /\ [][RequestNext]_vars

(***************************************************************************)
(* Claims about the token refresh                                          *)
(***************************************************************************)
\* the refresh calls that were made with token g
RefreshesOf(g) == {k \in 1..Len(refresh_calls) : refresh_calls[k] = g}

\* C5: when all the concurrent callers found the same token expired and
\* have their token (no refresh call having failed, the token in the file
\* being valid), exactly one refresh call was made for that token and all
\* of them hold the one token that this refresh produced.
C5_OneRefreshPerExpiry ==
    \A g \in 1..(MaxRefreshes + 1) :
        (/\ \A c \in Callers : tpc[c] = "done" /\ seen_expired[c] = g
         /\ ~refresh_failed
         /\ ~IsExpired(token_file))
        => /\ Cardinality(RefreshesOf(g)) = 1
           /\ \A c, d \in Callers : tokens[c] = tokens[d]
           /\ \A c \in Callers : tokens[c].gen > g

\* caller c's get_access_token call returns normally in this step
Returns(c) == tpc[c] # "done" /\ tpc'[c] = "done"

\* C22: when get_access_token returns normally the token it returns is not
\* expired at that moment; without a token that is not expired the call
\* raises, whether the token has a refresh token or not and whether it came
\* from a refresh or from the file.
C22_ReturnedTokenValid ==
    [][\A c \in Callers : Returns(c) => now < tokens'[c].expires_at]_vars

\* the request of caller c has ended, by a return or by an exception
Finished(c) == rq[c].pc \in {"returned", "failed"}

\* C23: one _request call sends at most two HTTP requests and makes at most
\* one forced refresh call, both only after a 401 on its first request; a
\* retry that is answered 401 ends the call as a failure with no further
\* refresh or request; and when the call has ended the retry flag is clear,
\* so that the next call on the client can retry too.
C23_OneRetryPerRequest ==
    /\ [](\A c \in Requesters :
            /\ rq[c].http <= 2
            /\ rq[c].forced <= 1
            /\ rq[c].http = 2 => rq[c].forced = 1 \/ ~tokens[c].refresh_token
            /\ (rq[c].http = 2 /\ rq[c].status = "401")
                   => rq[c].pc = "failed"
            /\ Finished(c) => ~rq[c].retry_attempted)
    /\ [][\A c \in Requesters :
            /\ (rq'[c].http = 2 /\ rq[c].http = 1) => rq[c].status = "401"
            /\ rq'[c].forced > rq[c].forced
                   => rq[c].http = 1 /\ rq[c].status = "401"
            /\ Finished(c) =>
                   \/ rq'[c] = rq[c]
                   \/ /\ rq'[c].pc \in {"idle", "headers1"}
                      /\ rq'[c].http = 0]_vars

\* a retry was answered 401 after a forced refresh, the call has ended as a
\* failure, and a 401 on the client's next call would be retried again
C23_Witness ==
    \E c \in Requesters :
        /\ rq[c].pc = "failed"
        /\ rq[c].http = 2
        /\ rq[c].forced = 1
        /\ rq[c].status = "401"
        /\ ~rq[c].retry_attempted

\* the refresh call of caller c raises in this step: the call is over and
\* the token file is as it was
RefreshFails(c) ==
    /\ tpc[c] = "calling"
    /\ tpc'[c] # "calling"
    /\ token_file' = token_file

\* C24: when the refresh call made under the lock fails, the caller takes
\* the token of the token file when that token is not expired and returns,
\* and raises otherwise; it makes no further refresh call in this
\* invocation, which ends with that step, the lock released.
C24_FailedRefreshFallsBack ==
    [][\A c \in Callers :
        RefreshFails(c) =>
            /\ refresh_calls' = refresh_calls
            /\ refresh_lock' = 0
            /\ IF now < token_file.expires_at
               THEN tpc'[c] = "done" /\ tokens'[c] = token_file
               ELSE tpc'[c] = "raised" /\ tokens'[c] = tokens[c]]_vars

\* caller c made the last refresh call, for the token it found expired,
\* the call failed and c returned with the newer token of the file
C24_Witness ==
    \E c \in Callers :
        /\ tpc[c] = "done"
        /\ refresh_failed
        /\ refresh_calls # <<>>
        /\ refresh_calls[Len(refresh_calls)] = seen_expired[c]
        /\ tokens[c] = token_file
        /\ tokens[c].gen <= Len(refresh_calls)
        /\ now < tokens[c].expires_at

\* the callers whose refresh_access_token call is in flight, made by
\* _ensure_token or forced by a 401
InFlight ==
    {c \in Callers : tpc[c] = "calling"} \cup
    {c \in Requesters : rq[c].pc = "forcing"}

\* C25: at most one refresh call is in flight at a time, whichever client
\* makes it and on whichever of the two paths, and its caller holds the
\* lock; and whenever the lock is free, no client holds a token newer than
\* the one in the token file: a refreshed token is in the file before the
\* lock is released.
C25_OneRefreshInFlight ==
    /\ Cardinality(InFlight) <= 1
    /\ \A c \in InFlight : refresh_lock = c
    /\ refresh_lock = 0 =>
           \A c \in Callers : tokens[c].gen <= token_file.gen

\* a forced refresh call is in flight while another client, which found
\* its token expired, waits for the lock
C25_Witness ==
    \E c \in Requesters, d \in Callers :
        /\ c # d
        /\ rq[c].pc = "forcing"
        /\ tpc[d] = "wait"
        /\ refresh_lock = c

(***************************************************************************)
(* Claims about persistence                                                *)
(***************************************************************************)
\* the worker holds nothing and the queue is empty
Drained == history_queue = <<>> /\ hw_item = <<>>

\* every add_event call stored its record
NoAddFailed == Len(events) = Len(add_calls)

\* the last call was get_history() and nothing was stored since
ReadAll ==
    /\ result.call = "get_history"
    /\ result.event_type = <<>>
    /\ result.limit = <<>>
    /\ result.before_timestamp = <<>>

\* C6: once the history worker has drained the queue and no store write
\* failed, get_history() returns the records the stream reader enqueued,
\* all of them, in the order in which they were enqueued.
C6_HistoryInEnqueueOrder ==
    (Drained /\ NoAddFailed /\ ReadAll)
    => /\ Len(result.rows) = enqueued
       /\ \A k \in 1..Len(result.rows) : result.rows[k].data = k

\* the queue drained of three records or more, stored over two clock values
\* at least, two of them with one timestamp, and then read back
C6_Witness ==
    /\ Drained /\ NoAddFailed /\ ReadAll
    /\ enqueued >= 3
    /\ Len(result.rows) = enqueued
    /\ result.rows[1].timestamp = result.rows[2].timestamp
    /\ result.rows[2].timestamp < result.rows[enqueued].timestamp

\* how often x occurs in seq
Count(seq, x) == Cardinality({k \in 1..Len(seq) : seq[k] = x})

QueuedIds == {history_queue[k].id : k \in 1..Len(history_queue)}

StoredIds == [k \in 1..Len(events) |-> events[k].data]

\* C10: a record taken from the queue is passed to add_event exactly once
\* (not yet while the worker holds it), a record is never put back on the
\* queue after it was taken, and no record is stored more than once.
C10_AppendOncePerRecord ==
    \A id \in 1..enqueued :
        /\ id \in QueuedIds => Count(add_calls, id) = 0
        /\ hw_item # <<>> /\ hw_item[1].id = id
             => id \notin QueuedIds /\ Count(add_calls, id) = 0
        /\ id \notin QueuedIds /\ (hw_item = <<>> \/ hw_item[1].id # id)
             => Count(add_calls, id) = 1
        /\ Count(StoredIds, id) <= 1

\* an append failed, its record is gone, and the worker stored a later one
C10_Witness ==
    \E i, j \in 1..enqueued :
        /\ i < j
        /\ Count(add_calls, i) = 1
        /\ Count(StoredIds, i) = 0
        /\ Count(StoredIds, j) = 1
        /\ i \notin QueuedIds

\* C32: a broadcast_event call that finds no client registered returns
\* from there: no _send_sse_event call, which is where the payload is
\* serialized and written, is made, and the registry stays empty; the
\* records of the frame are persisted all the same: with no client
\* registered, once the queue is drained and no store write failed,
\* get_history() returns all the enqueued records in enqueue order.
C32_NoClientsNoWorkButPersisted ==
    /\ (bc.active /\ bc.registered = <<>>)
         => /\ bc.done
            /\ bc.attempts = <<>>
            /\ bc.succeeded = {}
            /\ clients = <<>>
            /\ ENABLED BC_Return
    /\ (clients = <<>> /\ Drained /\ NoAddFailed /\ ReadAll)
         => /\ Len(result.rows) = enqueued
            /\ \A k \in 1..Len(result.rows) :
                 /\ result.rows[k].data = k
                 /\ result.rows[k].type \in {"status", "status_changed",
                                             "event", "program_started",
                                             "connected"}

\* the reader's second broadcast_event call is about to return with nothing
\* sent, while the records of both frames were stored and read back
C32_Witness ==
    /\ bc.active /\ bc.done
    /\ bc.registered = <<>>
    /\ bc.attempts = <<>>
    /\ reader_bcast = 2
    /\ enqueued >= 2
    /\ Drained /\ NoAddFailed /\ ReadAll
    /\ Len(result.rows) = enqueued

(***************************************************************************)
(* Claims about concurrent add_event calls                                 *)
(***************************************************************************)
\* the rows thread a stored
RowsOf(a) == {i \in 1..Len(events) : events[i].data = a}

RECURSIVE SuccessfulCalls(_)
SuccessfulCalls(n) == IF n = 0 THEN 0 ELSE ad[n].ok + SuccessfulCalls(n - 1)

\* C34: every successful add_event call appends exactly one row, whatever
\* the other threads do meanwhile, and no row is lost: the table holds as
\* many rows of a thread as the thread has made successful calls, and
\* get_history() returns as many events as successful calls were made when
\* it ran, K * M after K threads have made M successful calls each.
C34_NoAddLost ==
    /\ [](\A a \in Adders : Cardinality(RowsOf(a)) = ad[a].ok)
    /\ [](Len(events) = SuccessfulCalls(MaxAdders))
    /\ [](ReadAll => Len(result.rows) = SuccessfulCalls(MaxAdders))
    /\ []((ReadAll /\ \A a \in Adders : ad[a].ok = MaxAdds)
            => Len(result.rows) = MaxAdders * MaxAdds)
    /\ [][\A a \in Adders :
            ad'[a].ok # ad[a].ok
            => /\ ad'[a].ok = ad[a].ok + 1
               /\ Len(events') = Len(events) + 1
               /\ events'[Len(events')].data = a
               /\ SubSeq(events', 1, Len(events)) = events]_vars

\* every thread has made all its calls, which interleaved: the rows of the
\* threads alternate, and get_history() has returned them all
C34_Witness ==
    /\ \A a \in Adders : ad[a].ok = MaxAdds /\ ad[a].pc = "idle"
    /\ ReadAll
    /\ Len(result.rows) = MaxAdders * MaxAdds
    /\ \E i \in 1..(Len(events) - 2) :
         /\ events[i].data # events[i + 1].data
         /\ events[i + 1].data # events[i + 2].data

C31_RegistryHasNoDuplicates ==
    /\ \A i, j \in 1..Len(clients) : i # j => clients[i] # clients[j]
    /\ \A c \in ClientIds :
         /\ c \in Range(clients) => ~ENABLED (AddClient(c) /\ vars' # vars)
         /\ c \notin Range(clients)
              => ~ENABLED (RemoveClient(c) /\ vars' # vars)

\* one client is registered and another is not, and nobody holds the lock:
\* the first can be added once more and the second removed
C31_Witness ==
    \E c, d \in ClientIds :
        /\ c \in Range(clients)
        /\ d \notin Range(clients)
        /\ ENABLED AddClient(c)
        /\ ENABLED RemoveClient(d)
        /\ reader_bcast > 0

(***************************************************************************)
(* The reader's handling of one frame                                      *)
(***************************************************************************)
\* the step in which the reader decodes a frame
Decodes == r_frame'.n = r_frame.n + 1

\* the records the step puts on the queue, in put order
Put == SubSeq(history_queue', Len(history_queue) + 1, Len(history_queue'))

\* the step leaves what was on the queue in place
KeepsQueued == SubSeq(history_queue', 1, Len(history_queue)) = history_queue

\* the event types in lower case
LowerCase ==
    [t \in FrameTypes |->
        CASE t = "STATUS" -> "status"
          [] t = "EVENT" -> "event"
          [] t = "NOTIFY" -> "notify"
          [] t = "CONNECTED" -> "connected"]

\* the step puts, before any other record, one record with the event type ty
\* and the payload of the decoded frame, and no second one
PutsPrimary(ty) ==
    /\ KeepsQueued
    /\ Len(Put) >= 1
    /\ Put[1].type = ty
    /\ Put[1].data = r_frame'.payload
    /\ \A k \in 2..Len(Put) :
         ~(Put[k].type = ty /\ Put[k].data = r_frame'.payload)

\* C15 as stated: a frame that decodes puts exactly one primary record on
\* the queue, with the frame's event type and its decoded payload, both
\* unchanged, before any derived record of the frame.
C15_PrimaryVerbatim ==
    [][Decodes => PutsPrimary(r_frame'.type)]_vars

\* C15: a frame that decodes puts exactly one primary record on the queue,
\* with the frame's event type in lower case and its decoded payload
\* unchanged, before any derived record of the frame.
C15_PrimaryLowerCase ==
    [][Decodes => PutsPrimary(LowerCase[r_frame'.type])]_vars

\* a STATUS frame was decoded: its primary record, then its derived record
C15_Witness ==
    /\ r_pc = "bcast"
    /\ r_frame.type = "STATUS"
    /\ Len(history_queue) = 2
    /\ history_queue[1].type = "status"
    /\ history_queue[1].data = r_frame.payload
    /\ history_queue[2].type = "status_changed"

\* the items of the decoded payload that name an active program: the key is
\* ActiveProgram and the value is not null
Started ==
    {k \in 1..Len(r_frame'.payload.items) :
        /\ r_frame'.payload.items[k].key = ActiveProgram
        /\ r_frame'.payload.items[k].value # "null"}

\* the places of the derived records among the records of the step
Derived == 2..Len(Put)

\* C16: next to its primary record a decoded STATUS frame puts exactly one
\* status_changed record, a decoded EVENT or NOTIFY frame puts one
\* program_started record, with program and options, for each item whose key
\* is ActiveProgram and whose value is not null, and no status_changed or
\* program_started record is put in any other case.
C16_DerivedRecords ==
    [][Decodes =>
         /\ r_frame'.type = "STATUS"
              => /\ Len(Put) = 2
                 /\ Put[2].type = "status_changed"
         /\ r_frame'.type \in {"EVENT", "NOTIFY"}
              => /\ Len(Put) = 1 + Cardinality(Started)
                 /\ \A k \in Derived :
                      /\ Put[k].type = "program_started"
                      /\ DOMAIN Put[k].data = {"program", "options"}
         /\ r_frame'.type \notin {"STATUS", "EVENT", "NOTIFY"}
              => Len(Put) = 1]_vars

\* the reader has decoded a frame and not yet called broadcast_event for it
BroadcastDue == r_pc = "bcast" /\ clients_lock # "reader"

\* the places on the queue of the primary records: the first record of each
\* decoded frame
Primaries ==
    {k \in 1..Len(history_queue) :
        k = 1 \/ history_queue[k - 1].frame # history_queue[k].frame}

\* C17: every decoded frame is passed to broadcast_event exactly once, with
\* its event type and payload as decoded, and the broadcasts and the primary
\* records follow the order of decoding: the k-th call of the reader passes
\* the k-th decoded frame, it is made before the next frame is decoded, and
\* the k-th primary record on the queue is the one of the k-th decoded frame.
C17_BroadcastAndQueueInOrder ==
    /\ [](reader_bcast = IF BroadcastDue THEN r_frame.n - 1 ELSE r_frame.n)
    /\ [][reader_bcast' # reader_bcast
            => /\ reader_bcast' = r_frame.n
               /\ bc'.active
               /\ bc'.event_type = r_frame.type
               /\ bc'.payload = r_frame.payload]_vars
    /\ [][Decodes => /\ ~BroadcastDue
                     /\ BroadcastDue'
                     /\ KeepsQueued
                     /\ Put[1].frame = r_frame'.n
                     /\ Put[1].data = r_frame'.payload]_vars
    /\ [](\A k \in 1..Len(history_queue) :
            history_queue[k].frame = Cardinality({p \in Primaries : p <= k}))

\* the reader broadcasts its second frame, an EVENT that came after a STATUS;
\* the primary records are on the queue in this order
C17_Witness ==
    /\ reader_bcast = 2
    /\ bc.active
    /\ bc.event_type = "EVENT"
    /\ bc.payload = r_frame.payload
    /\ r_frame.payload.items # <<>>
    /\ history_queue[1].type = "status"
    /\ history_queue[1].frame = 1
    /\ history_queue[3].type = "event"
    /\ history_queue[3].frame = 2

\* C18: a KEEP-ALIVE frame the reader handles sets the last-heartbeat time
\* to the current time and changes nothing else: nothing is put on the
\* queue, broadcast_event is not called, and the reader waits for the next
\* frame of the same connection.
C18_KeepAliveOnlyHeartbeat ==
    [][R_KeepAlive
         => /\ last_heartbeat' = now
            /\ history_queue' = history_queue
            /\ enqueued' = enqueued
            /\ reader_bcast' = reader_bcast
            /\ bc' = bc
            /\ r_pc' = "wait"
            /\ wpc' = wpc
            /\ UNCHANGED <<pipeVars, histVars, tokenVars>>
            /\ HeartbeatOnly]_vars

\* a KEEP-ALIVE was the first frame of the connection: a heartbeat is on
\* record, no frame was decoded, and the reader waits for the next frame
C18_Witness ==
    /\ last_heartbeat = now
    /\ r_frame = NoFrame
    /\ enqueued = 0
    /\ reader_bcast = 0
    /\ Handling
    /\ ENABLED R_KeepAlive

\* C19: a frame other than KEEP-ALIVE with empty or absent data, or with
\* data that is not valid JSON, is skipped: nothing is put on the queue,
\* broadcast_event is not called, and the reader waits for the next frame
\* of the same connection.
C19_SkippedFrameLeavesNoTrace ==
    [][R_Skip
         => /\ history_queue' = history_queue
            /\ enqueued' = enqueued
            /\ r_frame' = r_frame
            /\ reader_bcast' = reader_bcast
            /\ bc' = bc
            /\ r_pc' = "wait"
            /\ wpc' = wpc
            /\ stop_event' = stop_event
            /\ stream_running' = stream_running]_vars

\* after a decoded and broadcast frame the reader waits on its connection,
\* where the next frame may be one without data or with malformed data
C19_Witness ==
    /\ Handling
    /\ r_frame.n = 1
    /\ reader_bcast = 1
    /\ Len(history_queue) >= 1
    /\ ENABLED R_Skip

\* a put of the decoded frame raises: an element of its items has no get
PutRaises == \E k \in 1..Len(r_frame'.payload.items) :
                r_frame'.payload.items[k] = NotAnObject

\* C21: no exception ends a background thread. The history worker and the
\* heartbeat monitor, once started, never end; a stream-reader thread leaves
\* its loop only with the stop flag set or by the heartbeat test after a
\* stream that ended without an exception; after an exception in the stream
\* it pauses and goes on to the next connection attempt; and a frame whose
\* puts raise keeps the reader on its connection with the broadcast of the
\* frame as its next step.
C21_ExceptionsEndNoThread ==
    /\ [][history_worker_alive => history_worker_alive']_vars
    /\ [][mon_pc # "none" => mon_pc' # "none"]_vars
    /\ [][\A w \in Workers :
            /\ (wpc[w] # "exit" /\ wpc'[w] = "exit")
                 => (stop_event \/ wpc[w] = "after_loop")
            /\ (wpc[w] \in {"connect", "streaming"} /\ wpc'[w] # wpc[w])
                 => wpc'[w] \in {"streaming", "after_loop", "sleep_429",
                                 "sleep_retry", "sleep_err"}
            /\ (wpc[w] = "sleep_err" /\ wpc'[w] # wpc[w])
                 => wpc'[w] = "reset"]_vars
    /\ [][(Decodes /\ PutRaises)
            => /\ BroadcastDue'
               /\ Len(Put) >= 1
               /\ wpc' = wpc
               /\ stop_event' = stop_event]_vars

\* reading the stream raised: the thread pauses, the monitor and the history
\* worker run, and the end of the pause leads on to the next attempt
C21_Witness ==
    \E w \in Workers :
      /\ wpc[w] = "sleep_err"
      /\ ~stop_event
      /\ mon_pc # "none"
      /\ history_worker_alive
      /\ ENABLED (W_WakeErr(w) /\ wpc'[w] = "reset")

====
